---- MODULE Spec2Model ----
(***************************************************************************)
(* Workflow graph validation, topological ordering and pipeline execution  *)
(* of backend/app/workflow (validator.py, executor.py) together with the   *)
(* stage registry and the built-in stages of backend/app/components.       *)
(*                                                                         *)
(* A Python str is a sequence of parts (TLA+ strings) read as their        *)
(* concatenation: "" is <<>>, an f-string is the concatenation of its      *)
(* literal and interpolated parts, and a stage-type string has one part    *)
(* per character so that str.lower() is computed character by character.   *)
(* A Python dict is a record whose DOMAIN is the set of keys present, and  *)
(* str(d) of a dict d is the three-part text <<"str(", d, ")">>.           *)
(***************************************************************************)
EXTENDS Integers, Sequences, FiniteSets, TLC

VARIABLES
    nodes,            \* WorkflowExecutor.nodes: declared stages, in declaration order
    edges,            \* WorkflowExecutor.edges: connections, in list order
    query,            \* the argument of WorkflowExecutor.execute
    pc,               \* position of the run inside WorkflowExecutor.execute
    in_degree,        \* get_execution_order: in-degree map
    queue,            \* get_execution_order: work queue
    order,            \* get_execution_order: order built so far
    execution_order,  \* execute: the order returned by get_execution_order
    components,       \* WorkflowExecutor.components: node id -> stage class
    idx,              \* execute: position of the for-loop in execution_order
    current_data,     \* execute: the payload handed to the next stage
    execution_log,    \* WorkflowExecutor.execution_log
    result,           \* the value execute returns (NoResult while running)
    raised,           \* str(e) of the exception raised in the run (NoException if none)
    calls,            \* history: the stage invocations (node id, input payload)
    returns,          \* history: the values the stage invocations returned
    is_valid,         \* Workflow.is_valid of the stored workflow
    validation,       \* the (is_valid, message) the last validate() returned
    cycle_removed,    \* history: the stored graph was obtained from a cyclic
                      \* one by removing a connection and is acyclic
    external,         \* history: the calls made to the external collaborators
    other,            \* the state of the run that is suspended while this one runs
    active,           \* which of the concurrent runs the event loop is running
    dfs               \* _check_for_cycles run step by step: visited, rec_stack,
                      \* the frames of has_cycle and the loop over the roots

vars == <<nodes, edges, query, pc, in_degree, queue, order, execution_order,
          components, idx, current_data, execution_log, result, raised,
          calls, returns, is_valid, validation, cycle_removed, external,
          other, active, dfs>>

\* the stored workflow's validity columns, untouched by a run
storeVars == <<is_valid, validation, cycle_removed>>

\* the event loop's view of the runs: untouched by the steps of a run
loopVars == <<other, active>>

(***************************************************************************)
(* Bounds of the model.                                                    *)
(***************************************************************************)
MaxNodes == 3
MaxEdges == 2
MaxStoredNodes == 3
MaxStoredEdges == 2
MaxGraphNodes == 3
MaxGraphEdges == 2
MaxTemplateLen == 3
MaxCycleNodes == 4
MaxCycleEdges == 4
MaxOrderNodes == 3
MaxOrderEdges == 3
MaxPermNodes == 3
MaxPermEdges == 2

(***************************************************************************)
(* Strings.                                                                *)
(***************************************************************************)
UpperCase == <<"A","B","C","D","E","F","G","H","I","J","K","L","M",
               "N","O","P","Q","R","S","T","U","V","W","X","Y","Z">>
LowerCase == <<"a","b","c","d","e","f","g","h","i","j","k","l","m",
               "n","o","p","q","r","s","t","u","v","w","x","y","z">>

ToLower ==
    [c \in {UpperCase[i] : i \in 1..26} |->
        LowerCase[CHOOSE i \in 1..26 : UpperCase[i] = c]]

LowerChar(c) == IF c \in DOMAIN ToLower THEN ToLower[c] ELSE c

\* str.lower()
Lower(s) == [i \in 1..Len(s) |-> LowerChar(s[i])]

T_userQuery      == <<"u","s","e","r","Q","u","e","r","y">>
T_userquery      == <<"u","s","e","r","q","u","e","r","y">>
T_user_query     == <<"u","s","e","r","_","q","u","e","r","y">>
T_input          == <<"i","n","p","u","t">>
T_knowledgeBase  == <<"k","n","o","w","l","e","d","g","e","B","a","s","e">>
T_knowledgebase  == <<"k","n","o","w","l","e","d","g","e","b","a","s","e">>
T_knowledge_base == <<"k","n","o","w","l","e","d","g","e","_","b","a","s","e">>
T_llmEngine      == <<"l","l","m","E","n","g","i","n","e">>
T_llmengine      == <<"l","l","m","e","n","g","i","n","e">>
T_llm_engine     == <<"l","l","m","_","e","n","g","i","n","e">>
T_llm            == <<"l","l","m">>
T_output         == <<"o","u","t","p","u","t">>
T_foo            == <<"f","o","o">>
T_empty          == <<>>

\* dict.get(k, default)
Get(d, k, default) == IF k \in DOMAIN d THEN d[k] ELSE default

\* Python None
None == <<"<None>">>

\* str(d) of a dict d
Str(d) == <<"str(", d, ")">>

(***************************************************************************)
(* components/__init__.py                                                  *)
(***************************************************************************)
\* the keys of COMPONENT_REGISTRY
RegistryKeys ==
    {T_userQuery, T_user_query, T_input, T_knowledgeBase, T_knowledge_base,
     T_llmEngine, T_llm_engine, T_llm, T_output}

COMPONENT_REGISTRY ==
    [k \in RegistryKeys |->
        IF k \in {T_userQuery, T_user_query, T_input} THEN "UserQueryComponent"
        ELSE IF k \in {T_knowledgeBase, T_knowledge_base} THEN "KnowledgeBaseComponent"
        ELSE IF k \in {T_llmEngine, T_llm_engine, T_llm} THEN "LLMEngineComponent"
        ELSE "OutputComponent"]

\* the key create_component looks up: node_data.get("type", "").lower()
LookupKey(node_data) == Lower(Get(node_data, "type", T_empty))

\* create_component: the stage it returns (its class, id and config; the
\* constructors only read the config), or the ValueError it raises
create_component(node_id, node_data) ==
    LET component_type == LookupKey(node_data) IN
    IF component_type \notin RegistryKeys
    THEN [raised |-> TRUE,
          error  |-> <<"Unknown component type: ">> \o component_type]
    ELSE [raised |-> FALSE,
          class  |-> COMPONENT_REGISTRY[component_type],
          node_id |-> node_id,
          config |-> node_data]

\* the ids of the declared stages, in declaration order
NodeIds(ns) == [i \in 1..Len(ns) |-> ns[i].id]
IdSet(ns) == {ns[i].id : i \in 1..Len(ns)}

\* node.get("data", {}).get("type", "").lower()
NodeType(node) == Lower(Get(Get(node, "data", <<>>), "type", T_empty))

(***************************************************************************)
(* workflow/validator.py                                                   *)
(***************************************************************************)
Ok == <<TRUE, <<>> >>

\* valid_types of _validate_node_types
valid_types ==
    {T_userquery, T_user_query, T_input, T_knowledgebase, T_knowledge_base,
     T_llmengine, T_llm_engine, T_llm, T_output}

RECURSIVE validate_node_types_from(_, _)
validate_node_types_from(ns, i) ==
    IF i > Len(ns) THEN Ok
    ELSE LET node_type == NodeType(ns[i]) IN
         IF node_type = T_empty
         THEN <<FALSE, <<"Node ", ns[i].id, " is missing a type">> >>
         ELSE IF node_type \notin valid_types
         THEN <<FALSE, <<"Unknown component type: ">> \o node_type>>
         ELSE validate_node_types_from(ns, i + 1)

validate_node_types(ns) == validate_node_types_from(ns, 1)

\* "source not in node_ids" is false, "target not in node_ids" is false
IsDeclaredAlways(x, node_ids) == TRUE
IsDeclared(x, node_ids) == x \in node_ids

\* edge.get("source"), edge.get("target"): None when the field is missing
\* (NoneId stands for None where a stage id is expected)
NoneId == "<None>"
EdgeSource(edge) == Get(edge, "source", NoneId)
EdgeTarget(edge) == Get(edge, "target", NoneId)

RECURSIVE validate_connections_from(_, _, _)
validate_connections_from(ns, es, i) ==
    IF i > Len(es) THEN Ok
    ELSE LET source == EdgeSource(es[i])
             target == EdgeTarget(es[i])
         IN IF ~IsDeclared(source, IdSet(ns))
            THEN <<FALSE, <<"Edge references non-existent source node: ", source>> >>
            ELSE IF ~IsDeclared(target, IdSet(ns))
            THEN <<FALSE, <<"Edge references non-existent target node: ", target>> >>
            ELSE validate_connections_from(ns, es, i + 1)

validate_connections(ns, es) == validate_connections_from(ns, es, 1)

\* the adjacency list: graph[edge["source"]].append(edge["target"]), in edge order
RECURSIVE TargetsOf(_, _, _)
TargetsOf(es, id, i) ==
    IF i > Len(es) THEN <<>>
    ELSE IF es[i].source = id
         THEN <<es[i].target>> \o TargetsOf(es, id, i + 1)
         ELSE TargetsOf(es, id, i + 1)

BuildGraph(ns, es) == [id \in IdSet(ns) |-> TargetsOf(es, id, 1)]

\* graph[edge["source"]].append(edge["target"]) raises KeyError: a connection
\* lacks a field, or its source is not a key of graph
BuildGraphRaises(ns, es) ==
    \E i \in 1..Len(es) :
        \/ "source" \notin DOMAIN es[i]
        \/ "target" \notin DOMAIN es[i]
        \/ es[i].source \notin IdSet(ns)

\* "elif neighbor in rec_stack" (line 118), reached when neighbor is visited
OnStackOrVisited(neighbor, visited, rec_stack) == neighbor \in visited
OnStack(neighbor, visited, rec_stack) == neighbor \in rec_stack

\* has_cycle(node_id) with its closure variables visited and rec_stack
RECURSIVE has_cycle(_, _, _, _)
RECURSIVE has_cycle_neighbors(_, _, _, _, _)
has_cycle(graph, node_id, visited, rec_stack) ==
    LET r == has_cycle_neighbors(graph, Get(graph, node_id, <<>>), 1,
                                 visited \cup {node_id}, rec_stack \cup {node_id})
    IN IF r.found THEN r
       ELSE [found |-> FALSE, visited |-> r.visited,
             rec_stack |-> r.rec_stack \ {node_id}]

has_cycle_neighbors(graph, nbrs, i, visited, rec_stack) ==
    IF i > Len(nbrs)
    THEN [found |-> FALSE, visited |-> visited, rec_stack |-> rec_stack]
    ELSE LET neighbor == nbrs[i] IN
         IF neighbor \notin visited
         THEN LET r == has_cycle(graph, neighbor, visited, rec_stack) IN
              IF r.found THEN r
              ELSE has_cycle_neighbors(graph, nbrs, i + 1, r.visited, r.rec_stack)
         ELSE IF OnStack(neighbor, visited, rec_stack)
         THEN [found |-> TRUE, visited |-> visited, rec_stack |-> rec_stack]
         ELSE has_cycle_neighbors(graph, nbrs, i + 1, visited, rec_stack)

\* the loop "for node_id in graph" of _check_for_cycles
RECURSIVE check_roots(_, _, _, _)
check_roots(graph, ids, i, visited) ==
    IF i > Len(ids) THEN FALSE
    ELSE IF ids[i] \notin visited
         THEN LET r == has_cycle(graph, ids[i], visited, {}) IN
              IF r.found THEN TRUE
              ELSE check_roots(graph, ids, i + 1, r.visited)
         ELSE check_roots(graph, ids, i + 1, visited)

CycleFoundNever(ns, es) == FALSE
CycleFound(ns, es) == check_roots(BuildGraph(ns, es), NodeIds(ns), 1, {})

check_for_cycles(ns, es) ==
    IF CycleFound(ns, es)
    THEN <<FALSE, <<"Workflow contains a cycle">> >>
    ELSE Ok

LLMTypes == {T_llmengine, T_llm_engine, T_llm}
InputTypes == {T_userquery, T_user_query, T_input}

\* "not x" for a string or None x
FalsyOnlyNone(x) == x = None
Falsy(x) == x = None \/ x = <<>>

KnowledgeBaseTypes == {T_knowledgebase, T_knowledge_base}

\* "if node_type in ["llmengine", "llm_engine", "llm"]" (line 138)
RequiresModelNever(node_type) == FALSE
RequiresModel(node_type) == node_type \in LLMTypes

RECURSIVE validate_component_configs_from(_, _)
validate_component_configs_from(ns, i) ==
    IF i > Len(ns) THEN Ok
    ELSE LET node_type == NodeType(ns[i])
             node_data == Get(ns[i], "data", <<>>)
         IN IF RequiresModel(node_type) /\ Falsy(Get(node_data, "model", None))
            THEN <<FALSE, <<"LLM Engine node ", ns[i].id, " must have a model specified">> >>
            ELSE validate_component_configs_from(ns, i + 1)

validate_component_configs(ns) == validate_component_configs_from(ns, 1)

\* the ids of the stages _validate_component_configs warns about (lines
\* 142-145) when it reads the stages ns[i], ns[i+1], ...: the retrieval
\* stages without a collection_name, up to the stage that is rejected
RECURSIVE config_warnings_from(_, _)
config_warnings_from(ns, i) ==
    IF i > Len(ns) THEN <<>>
    ELSE LET node_type == NodeType(ns[i])
             node_data == Get(ns[i], "data", <<>>)
         IN IF RequiresModel(node_type) /\ Falsy(Get(node_data, "model", None))
            THEN <<>>
            ELSE (IF /\ node_type \in KnowledgeBaseTypes
                     /\ Falsy(Get(node_data, "collection_name", None))
                  THEN <<ns[i].id>> ELSE <<>>)
                 \o config_warnings_from(ns, i + 1)

\* any(... for node in self.nodes) (lines 152-155)
HasInputFirst(ns) == Len(ns) >= 1 /\ NodeType(ns[1]) \in InputTypes
HasInput(ns) == \E i \in 1..Len(ns) : NodeType(ns[i]) \in InputTypes

validate_workflow_flow(ns) ==
    LET has_input  == HasInput(ns)
        has_output == \E i \in 1..Len(ns) : NodeType(ns[i]) = T_output
    IN IF ~has_input
       THEN <<FALSE, <<"Workflow must have an Input/User Query component">> >>
       ELSE IF ~has_output
       THEN <<FALSE, <<"Workflow must have an Output component">> >>
       ELSE Ok

\* "if not self.nodes" (line 31)
NoNodesNever(ns) == FALSE
NoNodes(ns) == Len(ns) = 0

\* "if len(self.nodes) > 1 and not self.edges" (line 35)
UnconnectedNever(ns, es) == FALSE
Unconnected(ns, es) == Len(ns) > 1 /\ Len(es) = 0

\* lines 53-61: the configuration check, then the flow check
FlowThenConfigs(configs, flow) == IF ~flow[1] THEN flow ELSE configs
ConfigsThenFlow(configs, flow) == IF ~configs[1] THEN configs ELSE flow

\* WorkflowValidator.validate: <<is_valid, message>>
validate(ns, es) ==
    LET types       == validate_node_types(ns)
        connections == validate_connections(ns, es)
        cycles      == check_for_cycles(ns, es)
        configs     == validate_component_configs(ns)
        flow        == validate_workflow_flow(ns)
        last        == ConfigsThenFlow(configs, flow)
    IN IF NoNodes(ns)
       THEN <<FALSE, <<"Workflow must have at least one component">> >>
       ELSE IF Unconnected(ns, es)
       THEN <<FALSE, <<"Workflow components must be connected">> >>
       ELSE IF ~types[1] THEN types
       ELSE IF ~connections[1] THEN connections
       ELSE IF ~cycles[1] THEN cycles
       ELSE IF ~last[1] THEN last
       ELSE <<TRUE, <<"Workflow is valid">> >>

\* str(e) of the KeyError raised at line 104 by the connection at position i
RECURSIVE BuildGraphError(_, _, _)
BuildGraphError(ns, es, i) ==
    IF "source" \notin DOMAIN es[i] THEN <<"'source'">>
    ELSE IF es[i].source \notin IdSet(ns) THEN <<"'", es[i].source, "'">>
    ELSE IF "target" \notin DOMAIN es[i] THEN <<"'target'">>
    ELSE BuildGraphError(ns, es, i + 1)

\* validate raises instead of returning: the checks before _check_for_cycles
\* pass and building its adjacency list raises KeyError (line 104)
validate_raises(ns, es) ==
    /\ ~NoNodes(ns)
    /\ ~Unconnected(ns, es)
    /\ validate_node_types(ns)[1]
    /\ validate_connections(ns, es)[1]
    /\ BuildGraphRaises(ns, es)


\* in_degree after "for edge in self.edges: in_degree[edge["target"]] += 1"
InDegree(ns, es) ==
    [id \in IdSet(ns) |-> Cardinality({i \in 1..Len(es) : es[i].target = id})]

\* "if degree == 0" (line 187)
IsRootAlways(deg, id) == TRUE
IsRoot(deg, id) == deg[id] = 0

\* [node_id for node_id, degree in in_degree.items() if degree == 0]
RECURSIVE ZeroDegree(_, _, _)
ZeroDegree(ids, deg, i) ==
    IF i > Len(ids) THEN <<>>
    ELSE IF IsRoot(deg, ids[i])
         THEN <<ids[i]>> \o ZeroDegree(ids, deg, i + 1)
         ELSE ZeroDegree(ids, deg, i + 1)

\* get_execution_order, lines 178-188: the state before the while loop
KahnInit(ns, es) ==
    [in_degree |-> InDegree(ns, es),
     queue     |-> ZeroDegree(NodeIds(ns), InDegree(ns, es), 1),
     order     |-> <<>>]

\* queue.pop(0): the position dequeued
PopLast(q) == Len(q)
PopIndex(q) == 1

\* "if in_degree[neighbor] == 0" after the decrement
ReachedZeroAlways(deg, neighbor) == TRUE
ReachedZero(deg, neighbor) == deg[neighbor] = 0

\* the loop "for neighbor in graph[node_id]"
RECURSIVE Relax(_, _, _, _)
Relax(nbrs, i, deg, q) ==
    IF i > Len(nbrs) THEN [in_degree |-> deg, queue |-> q]
    ELSE LET neighbor == nbrs[i]
             deg1 == [deg EXCEPT ![neighbor] = @ - 1]
         IN Relax(nbrs, i + 1, deg1,
                  IF ReachedZero(deg1, neighbor) THEN Append(q, neighbor) ELSE q)

\* one iteration of the while loop of get_execution_order
KahnStep(graph, st) ==
    LET k == PopIndex(st.queue)
        node_id == st.queue[k]
        rest == [i \in 1..(Len(st.queue) - 1) |->
                    IF i < k THEN st.queue[i] ELSE st.queue[i + 1]]
        r == Relax(graph[node_id], 1, st.in_degree, rest)
    IN [in_degree |-> r.in_degree,
        queue     |-> r.queue,
        order     |-> Append(st.order, node_id)]

RECURSIVE KahnRun(_, _)
KahnRun(graph, st) ==
    IF st.queue = <<>> THEN st.order ELSE KahnRun(graph, KahnStep(graph, st))

\* WorkflowValidator.get_execution_order
get_execution_order(ns, es) == KahnRun(BuildGraph(ns, es), KahnInit(ns, es))


(***************************************************************************)
(* components/user_query.py, knowledgebase.py, llm_engine.py, output.py    *)
(* The argument of Stage.execute is a tagged Python value.                 *)
(***************************************************************************)
PyStr(t)  == [kind |-> "str", val |-> t]
PyDict(d) == [kind |-> "dict", val |-> d]
PyNone    == [kind |-> "None"]

Returned(value) == [raised |-> FALSE, value |-> value]
Raised(error)   == [raised |-> TRUE, error |-> error]

\* str(e) of the exception raised by slicing a dict with [:100]:
\* TypeError before Python 3.12, KeyError from 3.12 on
SliceError(ext) ==
    IF ext = "KeyError" THEN <<"slice(None, 100, None)">>
    ELSE <<"unhashable type: 'slice'">>

\* UserQueryComponent.execute
UserQueryExecute(node_id, config, input_data, ext) ==
    LET isStr   == input_data.kind = "str"
        hasQ    == input_data.kind = "dict" /\ "query" \in DOMAIN input_data.val
        falsy   == \/ input_data.kind = "None"
                   \/ input_data.kind = "dict" /\ DOMAIN input_data.val = {}
        query_text == IF isStr THEN input_data.val
                      ELSE IF hasQ THEN input_data.val.query
                      ELSE <<>>
    IN IF ~isStr /\ ~hasQ /\ ~falsy
       THEN Raised(SliceError(ext))     \* self.query_text[:100] on a dict
       ELSE Returned([query |-> query_text,
                      component_type |-> <<"user_query">>,
                      node_id |-> node_id])

\* "\n\n".join(documents)
Join(documents) ==
    IF documents = <<>> THEN <<>>
    ELSE IF Len(documents) = 1 THEN documents[1]
    ELSE <<"join(", documents, ")">>

\* the query a retrieval or generation stage reads from its input
QueryOf(input_data) ==
    IF input_data.kind = "dict" THEN Get(input_data.val, "query", <<>>)
    ELSE IF input_data.kind = "str" THEN input_data.val
    ELSE <<>>

ProviderError == <<"provider error">>

\* the except clauses of the retrieval and generation stages (knowledgebase.py
\* lines 81-83, llm_engine.py lines 82-88): the provider's exception is logged
\* and a payload is returned
Propagated(payload, error) == Raised(error)
Absorbed(payload, error) == Returned(payload)

\* lines 49-51: the collection does not exist
MissingCollectionRaises(q) == Raised(<<"Collection does not exist">>)
MissingCollection(q) ==
    Returned([context |-> <<>>, query |-> q, documents |-> <<>>])

\* KnowledgeBaseComponent.execute; ext is what the similarity store and the
\* embedding provider do
KnowledgeBaseExecute(node_id, config, input_data, ext) ==
    LET q == QueryOf(input_data)
        documents == IF ext = "found" THEN << <<"doc1">> >> ELSE <<>>
    IN IF q = <<>>
       THEN Returned([context |-> <<>>, query |-> q, documents |-> <<>>])
       ELSE IF ext = "no_collection"
       THEN MissingCollection(q)
       ELSE IF ext \in {"provider_error", "store_error"}
       THEN Absorbed([context |-> <<>>, query |-> q, documents |-> <<>>,
                      error |-> ProviderError], ProviderError)
       ELSE Returned([context |-> Join(documents), query |-> q,
                      documents |-> documents,
                      distances |-> [i \in 1..Len(documents) |-> 0],
                      component_type |-> <<"knowledge_base">>,
                      node_id |-> node_id])

GeneratedText == <<"generated answer">>

\* LLMEngineComponent.execute; ext is what the generation provider does
LLMEngineExecute(node_id, config, input_data, ext) ==
    LET q == QueryOf(input_data)
        context == IF input_data.kind = "dict"
                   THEN Get(input_data.val, "context", <<>>) ELSE <<>>
    IN IF q = <<>>
       THEN Returned([response |-> <<"No query provided">>, query |-> q])
       ELSE IF ext = "provider_error"
       THEN Absorbed([response |-> <<"Error generating response: ">> \o ProviderError,
                      query |-> q, error |-> ProviderError], ProviderError)
       ELSE Returned([response |-> GeneratedText, query |-> q,
                      context_used |-> context # <<>>,
                      web_search_used |-> Get(config, "use_web_search", FALSE),
                      component_type |-> <<"llm_engine">>,
                      node_id |-> node_id])

\* OutputComponent.execute
OutputExecute(node_id, config, input_data, ext) ==
    LET response_text ==
            IF input_data.kind = "dict"
            THEN Get(input_data.val, "response", Str(input_data.val))
            ELSE IF input_data.kind = "str" THEN input_data.val
            ELSE <<"None">>
        output == IF Get(config, "output_format", "text") = "json"
                  THEN [response |-> response_text]
                  ELSE response_text
    IN Returned([output |-> output, response |-> response_text,
                 component_type |-> <<"output">>, node_id |-> node_id])

\* a call to an external collaborator and its outcome: for collection_exists
\* the boolean it returned, for the other calls whether it returned (TRUE) or
\* raised (FALSE)
ExternalCall(node_id, op, arg, ok) ==
    [node_id |-> node_id, op |-> op, arg |-> arg, ok |-> ok]

\* str.replace(old, new) on a text whose parts are whole tokens: every part
\* equal to old becomes the parts of new, and the inserted parts are not
\* scanned again by the same call
RECURSIVE Replace(_, _, _)
Replace(text, old, new) ==
    IF text = <<>> THEN <<>>
    ELSE (IF Head(text) = old THEN new ELSE <<Head(text)>>)
            \o Replace(Tail(text), old, new)

\* LLMEngineComponent._build_prompt
build_prompt(config, q, context, web_context) ==
    LET custom_prompt == Get(config, "custom_prompt", <<>>)
        p1 == Replace(custom_prompt, "{query}", q)
        p2 == Replace(p1, "{context}", context)
        p3 == Replace(p2, "{User Query}", q)
        p4 == Replace(p3, "{CONTEXT}", context)
    IN IF custom_prompt # <<>> THEN p4
       ELSE (IF context # <<>>
             THEN <<"Context from documents:\n">> \o context \o <<"\n", "\n">>
             ELSE <<>>)
            \o (IF web_context # <<>>
                THEN <<"Web search results:\n">> \o web_context \o <<"\n", "\n">>
                ELSE <<>>)
            \o <<"User query: ">> \o q \o <<"\n", "\n">>
            \o <<"Please provide a helpful response based on the above information.">>

\* what _perform_web_search returns when use_web_search is set
WebSearchResults == <<"web search results">>

\* the collaborator calls LLMEngineComponent.execute makes (lines 50-68)
LLMEngineCalls(node_id, config, input_data, ext) ==
    LET q == QueryOf(input_data)
        context == IF input_data.kind = "dict"
                   THEN Get(input_data.val, "context", <<>>) ELSE <<>>
        use_web_search == Get(config, "use_web_search", FALSE)
        web_search_context == IF use_web_search THEN WebSearchResults ELSE <<>>
    IN IF q = <<>> THEN <<>>
       ELSE (IF use_web_search
             THEN <<ExternalCall(node_id, "GoogleSearch", q, TRUE)>> ELSE <<>>)
            \o <<ExternalCall(node_id, "chat.completions.create",
                              build_prompt(config, q, context, web_search_context),
                              ext # "provider_error")>>

\* the collaborator calls KnowledgeBaseComponent.execute makes (lines 49-62);
\* with ext = "provider_error" the embedding call raises, with "store_error"
\* the similarity query does
KnowledgeBaseCalls(node_id, config, input_data, ext) ==
    LET q == QueryOf(input_data)
        name == Get(config, "collection_name", <<"kb_", node_id>>)
    IN IF q = <<>> THEN <<>>
       ELSE <<ExternalCall(node_id, "collection_exists", name,
                           ext # "no_collection")>> \o
            (IF ext = "no_collection" THEN <<>>
             ELSE <<ExternalCall(node_id, "embeddings.create", q,
                                 ext # "provider_error")>> \o
                  (IF ext = "provider_error" THEN <<>>
                   ELSE <<ExternalCall(node_id, "query_embeddings", name,
                                       ext # "store_error")>>))

\* the collaborator calls of a stage's execute
StageCalls(component, input_data, ext) ==
    IF component.class = "KnowledgeBaseComponent"
    THEN KnowledgeBaseCalls(component.node_id, component.config, input_data, ext)
    ELSE IF component.class = "LLMEngineComponent"
    THEN LLMEngineCalls(component.node_id, component.config, input_data, ext)
    ELSE <<>>

\* component.execute(input_data), dispatched on the class of the stage
StageExecute(component, input_data, ext) ==
    IF component.class = "UserQueryComponent"
    THEN UserQueryExecute(component.node_id, component.config, input_data, ext)
    ELSE IF component.class = "KnowledgeBaseComponent"
    THEN KnowledgeBaseExecute(component.node_id, component.config, input_data, ext)
    ELSE IF component.class = "LLMEngineComponent"
    THEN LLMEngineExecute(component.node_id, component.config, input_data, ext)
    ELSE OutputExecute(component.node_id, component.config, input_data, ext)

\* what the collaborators (or the interpreter) of a stage class can do
ExtChoices(class) ==
    IF class = "UserQueryComponent" THEN {"TypeError", "KeyError"}
    ELSE IF class = "KnowledgeBaseComponent"
    THEN {"no_collection", "empty", "found", "provider_error", "store_error"}
    ELSE IF class = "LLMEngineComponent" THEN {"generated", "provider_error"}
    ELSE {"none"}


(***************************************************************************)
(* workflow/executor.py                                                    *)
(***************************************************************************)
NoResult == [pending |-> TRUE]
NotValidated == <<>>
NoException == <<>>

\* no other run is suspended
NoRun == [pc |-> "none"]

\* _check_for_cycles is not run step by step
NoSearch == <<>>

\* _initialize_components: the stages constructed, and the exception of the
\* first create_component that raises
RECURSIVE initialize_components(_, _, _)
initialize_components(ns, i, comps) ==
    IF i > Len(ns) THEN [raised |-> FALSE, components |-> comps]
    ELSE LET node_id == ns[i].id
             c == create_component(node_id, Get(ns[i], "data", <<>>))
         IN IF c.raised
            THEN [raised |-> TRUE, error |-> c.error, components |-> comps]
            ELSE initialize_components(ns, i + 1,
                    [id \in DOMAIN comps \cup {node_id} |->
                        IF id = node_id
                        THEN [class |-> c.class, node_id |-> c.node_id,
                              config |-> c.config]
                        ELSE comps[id]])

\* the log_entry of _log_execution (timestamp and data_preview are not
\* observed by any property and are left out)
LogEntry(node_id, status) == [node_id |-> node_id, status |-> status]

\* _log_execution: self.execution_log.append(log_entry)
log_execution_started_only(log, node_id, status) ==
    IF status = "started" THEN Append(log, LogEntry(node_id, status)) ELSE log
log_execution(log, node_id, status) == Append(log, LogEntry(node_id, status))

\* the result returned when validation fails (lines 43-48)
ValidationFailureGeneric(error_msg) ==
    [success |-> FALSE, error |-> <<"Workflow validation failed">>,
     output |-> None, execution_log |-> <<>>]
ValidationFailure(error_msg) ==
    [success |-> FALSE, error |-> error_msg, output |-> None,
     execution_log |-> <<>>]

\* "current_data = output" (line 75)
NextPayloadMerged(previous, output) ==
    [k \in DOMAIN previous \cup DOMAIN output |->
        IF k \in DOMAIN output THEN output[k] ELSE previous[k]]
NextPayload(previous, output) == output

\* final_output (line 78)
FinalOutputPreferOutput(d) == Get(d, "output", Get(d, "response", Str(d)))
FinalOutput(d) == Get(d, "response", Get(d, "output", Str(d)))

\* lines 37-48: is_valid, error_msg = self.validator.validate()
Validate ==
    /\ pc = "start"
    /\ IF validate_raises(nodes, edges)
       THEN /\ raised' = BuildGraphError(nodes, edges, 1)
            /\ pc' = "raised"
            /\ UNCHANGED <<validation, result>>
       ELSE LET v == validate(nodes, edges) IN
            /\ validation' = v
            /\ UNCHANGED raised
            /\ IF ~v[1]
               THEN /\ result' = ValidationFailure(v[2])
                    /\ pc' = "done"
               ELSE /\ pc' = "order"
                    /\ UNCHANGED result
    /\ UNCHANGED <<is_valid, cycle_removed>>
    /\ UNCHANGED <<nodes, edges, query, in_degree, queue, order,
                   execution_order, components, idx, current_data,
                   execution_log, calls, returns>>
    /\ UNCHANGED <<external, other, active, dfs>>

\* line 51, entering get_execution_order (lines 178-188)
GetOrderBegin ==
    /\ pc = "order"
    /\ LET st == KahnInit(nodes, edges) IN
       /\ in_degree' = st.in_degree
       /\ queue' = st.queue
       /\ order' = st.order
    /\ pc' = "kahn"
    /\ UNCHANGED storeVars
    /\ UNCHANGED <<nodes, edges, query, execution_order, components, idx,
                   current_data, execution_log, result, raised, calls, returns>>
    /\ UNCHANGED <<external, other, active, dfs>>

\* one iteration of the while loop of get_execution_order (lines 190-197)
KahnLoop ==
    /\ pc = "kahn"
    /\ queue # <<>>
    /\ LET st == KahnStep(BuildGraph(nodes, edges),
                          [in_degree |-> in_degree, queue |-> queue,
                           order |-> order]) IN
       /\ in_degree' = st.in_degree
       /\ queue' = st.queue
       /\ order' = st.order
    /\ UNCHANGED storeVars
    /\ UNCHANGED <<nodes, edges, query, pc, execution_order, components, idx,
                   current_data, execution_log, result, raised, calls, returns>>
    /\ UNCHANGED <<external, other, active, dfs>>

\* get_execution_order returns (line 199) into execute (lines 51-52)
GetOrderReturn ==
    /\ pc = "kahn"
    /\ queue = <<>>
    /\ execution_order' = order
    /\ pc' = "init"
    /\ UNCHANGED storeVars
    /\ UNCHANGED <<nodes, edges, query, in_degree, queue, order, components,
                   idx, current_data, execution_log, result, raised, calls,
                   returns>>
    /\ UNCHANGED <<external, other, active, dfs>>

\* "raise" (line 109): the exception of create_component leaves
\* _initialize_components and execute
ConstructionIgnored(r) == FALSE
ConstructionRaised(r) == r.raised

\* lines 54-59: _initialize_components, outside the try block, then the
\* payload is seeded
InitializeComponents ==
    /\ pc = "init"
    /\ LET r == initialize_components(nodes, 1, components) IN
       /\ components' = r.components
       /\ IF ConstructionRaised(r)
          THEN /\ raised' = r.error
               /\ pc' = "raised"
               /\ UNCHANGED <<current_data, idx>>
          ELSE /\ current_data' = [query |-> query]
               /\ idx' = 1
               /\ pc' = "loop"
               /\ UNCHANGED raised
    /\ UNCHANGED storeVars
    /\ UNCHANGED <<nodes, edges, query, in_degree, queue, order,
                   execution_order, execution_log, result, calls, returns>>
    /\ UNCHANGED <<external, other, active, dfs>>

\* lines 61-69: the next stage is logged as started and its execute is awaited
StartStage ==
    /\ pc = "loop"
    /\ idx <= Len(execution_order)
    /\ LET node_id == execution_order[idx] IN
       IF node_id \in DOMAIN components
       THEN /\ execution_log' = log_execution(execution_log, node_id, "started")
            /\ calls' = Append(calls, [node_id |-> node_id, input |-> current_data])
            /\ pc' = "await"
            /\ UNCHANGED raised
       ELSE \* self.components[node_id] raises KeyError
            /\ raised' = <<"'", node_id, "'">>
            /\ pc' = "except"
            /\ UNCHANGED <<execution_log, calls>>
    /\ UNCHANGED storeVars
    /\ UNCHANGED <<nodes, edges, query, in_degree, queue, order,
                   execution_order, components, idx, current_data, result,
                   returns>>
    /\ UNCHANGED <<external, other, active, dfs>>

\* lines 69-75: the awaited stage returns
StageReturn ==
    /\ pc = "await"
    /\ LET node_id == execution_order[idx]
           component == components[node_id]
       IN \E ext \in ExtChoices(component.class) :
            LET r == StageExecute(component, PyDict(current_data), ext) IN
            /\ ~r.raised
            /\ execution_log' = log_execution(execution_log, node_id, "completed")
            /\ current_data' = NextPayload(current_data, r.value)
            /\ returns' = Append(returns, r.value)
            /\ external' = external \o
                              StageCalls(component, PyDict(current_data), ext)
    /\ idx' = idx + 1
    /\ pc' = "loop"
    /\ UNCHANGED storeVars
    /\ UNCHANGED <<nodes, edges, query, in_degree, queue, order,
                   execution_order, components, result, raised, calls>>
    /\ UNCHANGED <<loopVars, dfs>>

\* line 69 raises: control passes to the except clause (line 88)
StageRaise ==
    /\ pc = "await"
    /\ LET node_id == execution_order[idx]
           component == components[node_id]
       IN \E ext \in ExtChoices(component.class) :
            LET r == StageExecute(component, PyDict(current_data), ext) IN
            /\ r.raised
            /\ raised' = r.error
            /\ external' = external \o
                              StageCalls(component, PyDict(current_data), ext)
    /\ pc' = "except"
    /\ UNCHANGED storeVars
    /\ UNCHANGED <<nodes, edges, query, in_degree, queue, order,
                   execution_order, components, idx, current_data,
                   execution_log, result, calls, returns>>
    /\ UNCHANGED <<loopVars, dfs>>

\* the result returned by the except clause (lines 90-95)
ExecutionFailureNoLog(error, log) ==
    [success |-> FALSE, error |-> error, output |-> None,
     execution_log |-> <<>>]
ExecutionFailure(error, log) ==
    [success |-> FALSE, error |-> error, output |-> None,
     execution_log |-> log]

\* lines 88-95: the except clause
Catch ==
    /\ pc = "except"
    /\ result' = ExecutionFailure(raised, execution_log)
    /\ pc' = "done"
    /\ UNCHANGED storeVars
    /\ UNCHANGED <<nodes, edges, query, in_degree, queue, order,
                   execution_order, components, idx, current_data,
                   execution_log, raised, calls, returns>>
    /\ UNCHANGED <<external, other, active, dfs>>

\* lines 77-87: the loop is over
Finish ==
    /\ pc = "loop"
    /\ idx > Len(execution_order)
    /\ result' = [success |-> TRUE, output |-> FinalOutput(current_data),
                  execution_log |-> execution_log,
                  full_output |-> current_data]
    /\ pc' = "done"
    /\ UNCHANGED storeVars
    /\ UNCHANGED <<nodes, edges, query, in_degree, queue, order,
                   execution_order, components, idx, current_data,
                   execution_log, raised, calls, returns>>
    /\ UNCHANGED <<external, other, active, dfs>>

(***************************************************************************)
(* The graphs and inputs of a run.                                         *)
(***************************************************************************)
IdNames == <<"n1", "n2", "n3", "n4", "n5", "n6">>

\* the data of a declared stage
RunData ==
    {[type |-> T_input], [type |-> T_userQuery], [type |-> T_output],
     [type |-> T_llm, model |-> <<"gpt-4o-mini">>],
     [type |-> T_knowledge_base]}

NodeLists(Data, n) ==
    {[i \in 1..n |-> [id |-> IdNames[i], data |-> d[i]]] : d \in [1..n -> Data]}

EdgeLists(sources, targets, m) ==
    [1..m -> {[source |-> a, target |-> b] : a \in sources, b \in targets}]

Queries == {<<"hello">>}

Init ==
    /\ \E n \in 0..MaxNodes : nodes \in NodeLists(RunData, n)
    /\ \E m \in 0..MaxEdges : edges \in EdgeLists(IdSet(nodes), IdSet(nodes), m)
    /\ query \in Queries
    /\ pc = "start"
    /\ in_degree = <<>>
    /\ queue = <<>>
    /\ order = <<>>
    /\ execution_order = <<>>
    /\ components = <<>>
    /\ idx = 0
    /\ current_data = <<>>
    /\ execution_log = <<>>
    /\ result = NoResult
    /\ raised = NoException
    /\ calls = <<>>
    /\ returns = <<>>
    /\ is_valid = TRUE
    /\ validation = NotValidated
    /\ cycle_removed = FALSE
    /\ external = <<>>
    /\ other = NoRun
    /\ active = 1
    /\ dfs = NoSearch

Next ==
    \/ Validate
    \/ GetOrderBegin
    \/ KahnLoop
    \/ GetOrderReturn
    \/ InitializeComponents
    \/ StartStage
    \/ StageReturn
    \/ StageRaise
    \/ Catch
    \/ Finish

Spec == Init /\ [][Next]_vars


(***************************************************************************)
(* The end of a run whose last stage returned an arbitrary payload: the    *)
(* Stage contract lets execute return any mapping, so line 78 is applied   *)
(* to payloads with every combination of the keys it looks at.             *)
(***************************************************************************)
FinalKeys == {"response", "output", "query"}
FinalValues == {<<"a">>, <<"b">>, <<>>}
FinalPayloads == UNION {[K -> FinalValues] : K \in SUBSET FinalKeys}

InitFinal ==
    /\ nodes = <<[id |-> "n1", data |-> [type |-> T_output]]>>
    /\ edges = <<>>
    /\ query \in Queries
    /\ pc = "loop"
    /\ in_degree = [id \in {"n1"} |-> 0]
    /\ queue = <<>>
    /\ order = <<"n1">>
    /\ execution_order = <<"n1">>
    /\ components = [id \in {"n1"} |->
                        [class |-> "OutputComponent", node_id |-> "n1",
                         config |-> [type |-> T_output]]]
    /\ idx = 2
    /\ current_data \in FinalPayloads
    /\ execution_log = <<LogEntry("n1", "started"), LogEntry("n1", "completed")>>
    /\ result = NoResult
    /\ raised = NoException
    /\ calls = <<[node_id |-> "n1", input |-> [query |-> query]]>>
    /\ returns = <<current_data>>
    /\ is_valid = TRUE
    /\ validation = <<TRUE, <<"Workflow is valid">> >>
    /\ cycle_removed = FALSE
    /\ external = <<>>
    /\ other = NoRun
    /\ active = 1
    /\ dfs = NoSearch

NextFinal == Finish

SpecFinal == InitFinal /\ [][NextFinal]_vars

(***************************************************************************)
(* api/workflows.py: a stored workflow is created, edited and validated.   *)
(***************************************************************************)
\* an Optional request field
Absent == [given |-> FALSE]
Given(x) == [given |-> TRUE, val |-> x]

RemoveAt(seq, k) ==
    [i \in 1..(Len(seq) - 1) |-> IF i < k THEN seq[i] ELSE seq[i + 1]]

\* the stages reachable from the set S along connections (S included)
RECURSIVE ReachableFrom(_, _)
ReachableFrom(es, S) ==
    LET T == S \cup {es[i].target : i \in {j \in 1..Len(es) : es[j].source \in S}}
    IN IF T = S THEN S ELSE ReachableFrom(es, T)

\* the connection graph has a directed cycle: some connection's source is
\* reachable from its target
HasDirectedCycle(es) ==
    \E i \in 1..Len(es) : es[i].source \in ReachableFrom(es, {es[i].target})

\* the stage data of stored workflows
StoredData ==
    {[type |-> T_input], [type |-> T_output], [type |-> T_llm],
     [type |-> T_foo]}

\* an id no stage declares, used as the target of a connection
GhostId == "ghost"

\* the bodies of the update requests: nodes is left out, edges is left out
\* or is the stored list without one connection, is_valid is left out or set
NodeUpdates == {Absent}
EdgeUpdates(es) == {Absent} \cup {Given(RemoveAt(es, i)) : i \in 1..Len(es)}
ValidUpdates == {Absent, Given(TRUE), Given(FALSE)}

runVars == <<query, pc, in_degree, queue, order, execution_order, components,
             idx, current_data, execution_log, result, raised, calls, returns>>

\* create_workflow (lines 37-52)
InitWorkflow ==
    /\ \E n \in 0..MaxStoredNodes : nodes \in NodeLists(StoredData, n)
    /\ \E m \in 0..MaxStoredEdges :
          edges \in EdgeLists(IdSet(nodes), IdSet(nodes) \cup {GhostId}, m)
    /\ validation = IF nodes # <<>> /\ edges # <<>>
                    THEN validate(nodes, edges) ELSE NotValidated
    /\ is_valid = IF nodes # <<>> /\ edges # <<>>
                  THEN validate(nodes, edges)[1] ELSE FALSE
    /\ cycle_removed = FALSE
    /\ query = <<>>
    /\ pc = "stored"
    /\ in_degree = <<>>
    /\ queue = <<>>
    /\ order = <<>>
    /\ execution_order = <<>>
    /\ components = <<>>
    /\ idx = 0
    /\ current_data = <<>>
    /\ execution_log = <<>>
    /\ result = NoResult
    /\ raised = NoException
    /\ calls = <<>>
    /\ returns = <<>>
    /\ external = <<>>
    /\ other = NoRun
    /\ active = 1
    /\ dfs = NoSearch

\* update_workflow (lines 118-139)
UpdateWorkflow ==
    /\ pc = "stored"
    /\ \E new_nodes \in NodeUpdates, new_edges \in EdgeUpdates(edges),
          new_is_valid \in ValidUpdates :
          LET ns1 == IF new_nodes.given THEN new_nodes.val ELSE nodes
              es1 == IF new_edges.given THEN new_edges.val ELSE edges
              revalidate == new_nodes.given \/ new_edges.given
              v == validate(ns1, es1)
          IN /\ nodes' = ns1
             /\ edges' = es1
             /\ validation' = IF revalidate THEN v ELSE validation
             /\ is_valid' = IF new_is_valid.given THEN new_is_valid.val
                            ELSE IF revalidate THEN v[1] ELSE is_valid
             /\ cycle_removed' =
                   IF revalidate
                   THEN HasDirectedCycle(edges) /\ ~HasDirectedCycle(es1)
                   ELSE cycle_removed
    /\ UNCHANGED runVars
    /\ UNCHANGED <<external, other, active, dfs>>

\* validate_workflow (lines 185-190)
ValidateWorkflow ==
    /\ pc = "stored"
    /\ LET v == validate(nodes, edges) IN
       /\ validation' = v
       /\ is_valid' = v[1]
    /\ UNCHANGED <<nodes, edges, cycle_removed>>
    /\ UNCHANGED runVars
    /\ UNCHANGED <<external, other, active, dfs>>

NextWorkflow == UpdateWorkflow \/ ValidateWorkflow

SpecWorkflow == InitWorkflow /\ [][NextWorkflow]_vars

(***************************************************************************)
(* WorkflowValidator(nodes, edges).validate() on an authored graph: stage  *)
(* types of any spelling, missing types and models, connections to ids no  *)
(* stage declares and connections that lack a field.                       *)
(***************************************************************************)
GraphData ==
    {[type |-> T_input], [type |-> T_userQuery], [type |-> T_output],
     [type |-> T_llm, model |-> <<"gpt-4o-mini">>], [type |-> T_llm],
     [type |-> T_llm, model |-> <<>>], [type |-> T_foo],
     [type |-> T_knowledge_base], [label |-> <<"untyped">>]}

\* the connections of an authored graph over the declared ids
GraphEdges(ids) ==
    {[source |-> a, target |-> b] : a \in ids \cup {GhostId},
                                   b \in ids \cup {GhostId}}
        \cup {[target |-> b] : b \in ids}
        \cup {[source |-> a] : a \in ids}

InitValidate ==
    /\ \E n \in 0..MaxGraphNodes : nodes \in NodeLists(GraphData, n)
    /\ \E m \in 0..MaxGraphEdges : edges \in [1..m -> GraphEdges(IdSet(nodes))]
    /\ validation = NotValidated
    /\ is_valid = FALSE
    /\ cycle_removed = FALSE
    /\ query = <<>>
    /\ pc = "call"
    /\ in_degree = <<>>
    /\ queue = <<>>
    /\ order = <<>>
    /\ execution_order = <<>>
    /\ components = <<>>
    /\ idx = 0
    /\ current_data = <<>>
    /\ execution_log = <<>>
    /\ result = NoResult
    /\ raised = NoException
    /\ calls = <<>>
    /\ returns = <<>>
    /\ external = <<>>
    /\ other = NoRun
    /\ active = 1
    /\ dfs = NoSearch

\* validate (lines 23-64) returns, or line 104 raises
ValidateCall ==
    /\ pc = "call"
    /\ IF validate_raises(nodes, edges)
       THEN /\ raised' = BuildGraphError(nodes, edges, 1)
            /\ pc' = "raised"
            /\ UNCHANGED validation
       ELSE /\ validation' = validate(nodes, edges)
            /\ pc' = "returned"
            /\ UNCHANGED raised
    /\ UNCHANGED <<nodes, edges, is_valid, cycle_removed, query, in_degree,
                   queue, order, execution_order, components, idx,
                   current_data, execution_log, result, calls, returns>>
    /\ UNCHANGED <<external, other, active, dfs>>

NextValidate == ValidateCall

SpecValidate == InitValidate /\ [][NextValidate]_vars

(***************************************************************************)
(* Properties.                                                             *)
(***************************************************************************)
\* validate has accepted, respectively rejected, the graph of the run
Accepted == validation # NotValidated /\ validation[1]
Rejected == validation # NotValidated /\ ~validation[1]

\* the run is past get_execution_order
OrderReturned == pc \in {"init", "loop", "await", "except", "raised", "done"}

Occurrences(seq, x) == Cardinality({i \in 1..Len(seq) : seq[i] = x})
Pos(seq, x) == CHOOSE i \in 1..Len(seq) : seq[i] = x
DeclIndex(id) == CHOOSE i \in 1..Len(nodes) : nodes[i].id = id

\* started/completed pairs of the first n stages of ord
ExpectedLog(ord, n) ==
    [i \in 1..(2 * n) |->
        LogEntry(ord[(i + 1) \div 2],
                 IF i % 2 = 1 THEN "started" ELSE "completed")]

\* C1: for every graph validate accepts, the order get_execution_order
\* returns contains every declared stage id exactly once and places the
\* source of every connection before its target.
C1_OrderIsTopologicalPermutation ==
    (Accepted /\ OrderReturned) =>
        /\ Len(execution_order) = Len(nodes)
        /\ \A id \in IdSet(nodes) : Occurrences(execution_order, id) = 1
        /\ \A e \in 1..Len(edges) :
              Pos(execution_order, edges[e].source)
                  < Pos(execution_order, edges[e].target)

\* an accepted graph with a duplicated connection, two roots and a
\* disconnected stage has been ordered
C1_Witness ==
    /\ Accepted /\ pc = "init"
    /\ Len(nodes) = 3 /\ Len(edges) = 2
    /\ edges[1] = edges[2]

\* every stage type is one validate recognises
TypesValid(ns) == \A i \in 1..Len(ns) : NodeType(ns[i]) \in valid_types
EndpointsDeclared(ns, es) ==
    \A i \in 1..Len(es) : es[i].source \in IdSet(ns) /\ es[i].target \in IdSet(ns)
HasInputStage(ns) == \E i \in 1..Len(ns) : NodeType(ns[i]) \in InputTypes
HasOutputStage(ns) == \E i \in 1..Len(ns) : NodeType(ns[i]) = T_output
ModelsDeclared(ns) ==
    \A i \in 1..Len(ns) :
        NodeType(ns[i]) \in LLMTypes =>
            Get(Get(ns[i], "data", <<>>), "model", <<>>) # <<>>

CycleMessage == <<FALSE, <<"Workflow contains a cycle">> >>

\* C2 as stated: any graph with a directed cycle is rejected with the cycle
\* message, and the same graph without its cycle-closing connection, with
\* valid types and input/output stages present, is accepted.
C2_CycleRejectedThenAccepted ==
    /\ (validation # NotValidated /\ HasDirectedCycle(edges)) =>
          validation = CycleMessage
    /\ (cycle_removed /\ TypesValid(nodes)
          /\ HasInputStage(nodes) /\ HasOutputStage(nodes)) =>
          validation[1]

\* C2 amended: a graph with a directed cycle whose stage types are valid
\* and whose connection endpoints are declared is rejected with the cycle
\* message; the same graph without its cycle-closing connection is accepted
\* when it is acyclic, its types are valid, its endpoints are declared,
\* input and output stages are present, every generation stage declares a
\* model and a connection remains if more than one stage is declared.
C2_CycleRejectedWhenOtherwiseValid ==
    /\ (validation # NotValidated /\ HasDirectedCycle(edges)
          /\ TypesValid(nodes) /\ EndpointsDeclared(nodes, edges)) =>
          validation = CycleMessage
    /\ (cycle_removed /\ TypesValid(nodes) /\ EndpointsDeclared(nodes, edges)
          /\ HasInputStage(nodes) /\ HasOutputStage(nodes)
          /\ ModelsDeclared(nodes)
          /\ (Len(nodes) > 1 => edges # <<>>)) =>
          validation = <<TRUE, <<"Workflow is valid">> >>

\* the connection closing a cycle that the first declared stage does not
\* reach has been removed and the remaining graph has been accepted
C2_Witness ==
    /\ cycle_removed
    /\ validation # NotValidated /\ validation[1]
    /\ Len(nodes) = 3 /\ Len(edges) = 1
    /\ edges[1].source # nodes[1].id

\* C3: when validate rejects the graph, execute returns success=false with
\* exactly the validator's message and an empty log; no stage is
\* instantiated, no order is computed and no stage is executed.
C3_RejectedGraphNeverRuns ==
    Rejected =>
        /\ pc = "done"
        /\ components = <<>>
        /\ in_degree = <<>> /\ order = <<>> /\ execution_order = <<>>
        /\ calls = <<>> /\ execution_log = <<>>
        /\ result = [success |-> FALSE,
                     error |-> validation[2],
                     output |-> None,
                     execution_log |-> <<>>]

\* a graph without an Output stage has been rejected
C3_Witness ==
    /\ Rejected
    /\ pc = "done"
    /\ result.error = <<"Workflow must have an Output component">>

\* C4: every failing run ends with a structured result (success=false, an
\* error message, the log accumulated so far); no exception leaves execute.
C4_NoRawException ==
    /\ pc # "raised"
    /\ (pc = "done" /\ ~result.success) =>
          /\ "error" \in DOMAIN result
          /\ result.execution_log = execution_log

\* C5: if the k-th stage raises, no later stage runs and the result is
\* success=false, output null, error the exception's message, and the log
\* is the pairs of the first k-1 stages followed by started(k).
C5_StageFailureStopsRun ==
    (Accepted /\ pc = "done" /\ ~result.success) =>
        /\ raised # NoException
        /\ result.success = FALSE
        /\ result.output = None
        /\ result.error = raised
        /\ result.execution_log =
              Append(ExpectedLog(execution_order, idx - 1),
                     LogEntry(execution_order[idx], "started"))
        /\ Len(calls) = idx
        /\ Len(returns) = idx - 1

\* the third stage of a run has raised and the run has returned
C5_Witness ==
    /\ Accepted /\ pc = "done" /\ ~result.success
    /\ idx = 3

\* C6: a successful run executes every stage exactly once, in the order of
\* get_execution_order, and its log is started(s1), completed(s1), ...,
\* started(sN), completed(sN); while it runs the log is a prefix of that.
C6_SequentialLog ==
    /\ pc = "loop" => execution_log = ExpectedLog(execution_order, idx - 1)
    /\ pc = "await" =>
          execution_log = Append(ExpectedLog(execution_order, idx - 1),
                                 LogEntry(execution_order[idx], "started"))
    /\ (pc = "done" /\ result.success) =>
          /\ execution_order = get_execution_order(nodes, edges)
          /\ [i \in 1..Len(calls) |-> calls[i].node_id] = execution_order
          /\ \A id \in IdSet(nodes) :
                Cardinality({i \in 1..Len(calls) : calls[i].node_id = id}) = 1
          /\ Len(result.execution_log) = 2 * Len(nodes)
          /\ result.execution_log = ExpectedLog(execution_order, Len(nodes))

\* a run over three stages has succeeded
C6_Witness ==
    /\ pc = "done" /\ result.success
    /\ Len(nodes) = 3

\* C7: the first stage receives {query: initialInput}, every later stage
\* receives the value returned by the stage just before it in execution
\* order, and full_output of a successful run is the last stage's value.
C7_LinearThreading ==
    /\ calls # <<>> => calls[1].input = [query |-> query]
    /\ \A i \in 2..Len(calls) : calls[i].input = returns[i - 1]
    /\ (pc = "done" /\ result.success) =>
          result.full_output = returns[Len(returns)]

\* a successful run in which some stage ran right after a stage that is
\* not one of its connection predecessors
C7_Witness ==
    /\ pc = "done" /\ result.success
    /\ \E i \in 2..Len(calls) :
          ~\E e \in 1..Len(edges) :
              /\ edges[e].source = calls[i - 1].node_id
              /\ edges[e].target = calls[i].node_id


\* C8: the output of a successful run is the final payload's response field
\* when it has one, otherwise its output field when it has one, otherwise
\* the string representation of the whole final payload.
C8_FinalOutputPrecedence ==
    (pc = "done" /\ result.success) =>
        LET d == result.full_output IN
        /\ "response" \in DOMAIN d => result.output = d.response
        /\ ("response" \notin DOMAIN d /\ "output" \in DOMAIN d) =>
              result.output = d.output
        /\ ("response" \notin DOMAIN d /\ "output" \notin DOMAIN d) =>
              result.output = Str(d)

\* a run has succeeded whose final payload has an output but no response
C8_Witness ==
    /\ pc = "done" /\ result.success
    /\ "response" \notin DOMAIN result.full_output
    /\ "output" \in DOMAIN result.full_output

\* the type string matches a registry key when letter case is ignored
MatchesRegistry(t) == \E k \in RegistryKeys : Lower(k) = Lower(t)

\* C9: for every declared stage whose type is a registry key in any letter
\* casing, create_component returns a stage of the key's class; it fails
\* only for a type that matches no registry key after lower-casing.
C9_CaseInsensitiveLookup ==
    (pc \in {"loop", "await", "except", "raised"}) =>
        \A i \in 1..Len(nodes) :
            LET t == Get(Get(nodes[i], "data", <<>>), "type", T_empty)
                c == create_component(nodes[i].id, Get(nodes[i], "data", <<>>))
            IN IF MatchesRegistry(t)
               THEN /\ ~c.raised
                    /\ \E k \in RegistryKeys :
                          Lower(k) = Lower(t) /\ c.class = COMPONENT_REGISTRY[k]
               ELSE c.raised

\* the stage dequeued by the step, and whether the step is a dequeue
Dequeues == pc = "kahn" /\ Len(order') = Len(order) + 1
Dequeued == order'[Len(order')]

IsPrefix(a, b) == Len(a) <= Len(b) /\ \A i \in 1..Len(a) : a[i] = b[i]

\* C10 as stated: the stage dequeued next is the pending stage declared
\* earliest in the stage list.
C10_DequeuesEarliestDeclared ==
    [][Dequeues =>
          \A i \in 1..Len(queue) : DeclIndex(Dequeued) <= DeclIndex(queue[i])]_vars

\* C10 amended: the queue is first-in first-out.  The stages that start
\* with in-degree zero are queued in declaration order, the stage dequeued
\* next is the one pending longest, a stage whose in-degree reaches zero is
\* queued behind those already pending, and the order returned is the one
\* get_execution_order computes from the stage list and the connection list.
C10_DequeuesFirstIn ==
    [][/\ (pc = "order" /\ pc' = "kahn") =>
             /\ \A i, j \in 1..Len(queue') :
                   i < j => DeclIndex(queue'[i]) < DeclIndex(queue'[j])
             /\ \A id \in IdSet(nodes) :
                   Occurrences(queue', id) = IF in_degree'[id] = 0 THEN 1 ELSE 0
       /\ Dequeues =>
             /\ Dequeued = Head(queue)
             /\ IsPrefix(Tail(queue), queue')
       /\ (pc = "kahn" /\ pc' = "init") =>
             execution_order' = get_execution_order(nodes, edges)]_vars

\* two stages are pending and the one at the head of the queue was declared
\* after the other
C10_Witness ==
    /\ pc = "kahn"
    /\ Len(queue) = 2
    /\ DeclIndex(queue[1]) > DeclIndex(queue[2])

(***************************************************************************)
(* The seven graph invariants, stated over the registry.                   *)
(***************************************************************************)
\* the class the registry gives a type under a case-insensitive lookup
ClassOf(t) == COMPONENT_REGISTRY[CHOOSE k \in RegistryKeys : Lower(k) = Lower(t)]
DeclaredType(node) == Get(Get(node, "data", <<>>), "type", T_empty)
Classified(node, class) ==
    MatchesRegistry(DeclaredType(node)) /\ ClassOf(DeclaredType(node)) = class

Inv1_NonEmpty == Len(nodes) >= 1
Inv2_Connected == Len(nodes) > 1 => Len(edges) >= 1
Inv3_TypesResolve == \A i \in 1..Len(nodes) : MatchesRegistry(DeclaredType(nodes[i]))
Inv4_EndpointsDeclared ==
    \A i \in 1..Len(edges) :
        /\ DOMAIN edges[i] = {"source", "target"}
        /\ edges[i].source \in IdSet(nodes)
        /\ edges[i].target \in IdSet(nodes)
Inv5_Acyclic == ~HasDirectedCycle(edges)
Inv6_InputAndOutput ==
    /\ \E i \in 1..Len(nodes) : Classified(nodes[i], "UserQueryComponent")
    /\ \E i \in 1..Len(nodes) : Classified(nodes[i], "OutputComponent")
Inv7_ModelsDeclared ==
    \A i \in 1..Len(nodes) :
        Classified(nodes[i], "LLMEngineComponent") =>
            /\ "model" \in DOMAIN nodes[i].data
            /\ nodes[i].data.model # <<>>

\* the k-th invariant holds (5 is read only on graphs whose endpoints are declared)
Holds(k) ==
    IF k = 1 THEN Inv1_NonEmpty
    ELSE IF k = 2 THEN Inv2_Connected
    ELSE IF k = 3 THEN Inv3_TypesResolve
    ELSE IF k = 4 THEN Inv4_EndpointsDeclared
    ELSE IF k = 5 THEN Inv4_EndpointsDeclared /\ Inv5_Acyclic
    ELSE IF k = 6 THEN Inv6_InputAndOutput
    ELSE Inv7_ModelsDeclared

\* validate has returned in the run of the validator
Returned_ == pc = "returned"

C12_EmptyGraphRejected ==
    (pc # "call" /\ Len(nodes) = 0) =>
        /\ Returned_
        /\ validation = <<FALSE, <<"Workflow must have at least one component">> >>

\* a graph with no stage and two connections has been validated
C12_Witness == Returned_ /\ Len(nodes) = 0 /\ Len(edges) = 2

\* C13: for every graph with two or more stages and no connection,
\* validate returns false, whatever the stages' types and parameters.
C13_UnconnectedRejected ==
    (pc # "call" /\ Len(nodes) >= 2 /\ Len(edges) = 0) =>
        Returned_ /\ ~validation[1]

\* an input, a generation stage with a model and an output, not connected,
\* have been validated
C13_Witness ==
    /\ Returned_ /\ Len(nodes) = 3 /\ Len(edges) = 0
    /\ Inv3_TypesResolve /\ Inv6_InputAndOutput /\ Inv7_ModelsDeclared

\* C14: for every graph with a connection whose source or target is not a
\* declared stage id, or is missing, validate returns false and does not
\* raise while building the adjacency list of the cycle check.
C14_UndeclaredEndpointRejected ==
    (pc # "call" /\ ~Inv4_EndpointsDeclared) =>
        /\ pc # "raised" /\ raised = NoException
        /\ Returned_ /\ ~validation[1]

\* a graph whose only defect is a connection from an undeclared source, the
\* case in which building the adjacency list would raise, has been rejected
C14_Witness ==
    /\ Returned_
    /\ validation =
          <<FALSE, <<"Edge references non-existent source node: ", GhostId>> >>
    /\ Inv3_TypesResolve /\ Inv6_InputAndOutput /\ Inv7_ModelsDeclared
    /\ Len(edges) = 2

\* the graph of the run is Input -> Output: a stage of type "input", a stage
\* of type "output" and the connection from the first to the second
IsInputToOutput ==
    /\ Len(nodes) = 2 /\ Len(edges) = 1
    /\ DeclaredType(nodes[DeclIndex(edges[1].source)]) = T_input
    /\ DeclaredType(nodes[DeclIndex(edges[1].target)]) = T_output
    /\ edges[1].source # edges[1].target

\* the output of a run of Input -> Output on q when the input stage carries
\* the id a and the output stage the id b
EchoOutput(a, b, q) ==
    LET seeded == PyDict([query |-> q])
        first  == UserQueryExecute(a, [type |-> T_input], seeded, "TypeError")
        second == OutputExecute(b, [type |-> T_output], PyDict(first.value), "none")
    IN FinalOutput(second.value)

\* C15: running Input -> Output on any input q succeeds and the output is
\* derived from q alone: it is the same text whatever ids the two stages
\* carry.
C15_EchoDependsOnlyOnInput ==
    (IsInputToOutput /\ pc \in {"done", "raised"}) =>
        /\ pc = "done" /\ result.success
        /\ \A a, b \in {"n1", "n2"} :
              a # b => result.output = EchoOutput(a, b, query)

\* the stage invoked at position i of the run is a retrieval stage that was
\* told by the similarity store that its collection does not exist
MissingCollectionAt(i) ==
    /\ i \in 1..Len(calls)
    /\ components[calls[i].node_id].class = "KnowledgeBaseComponent"
    /\ \E j \in 1..Len(external) :
          /\ external[j].node_id = calls[i].node_id
          /\ external[j].op = "collection_exists"
          /\ ~external[j].ok

\* what the retrieval stage at position i did: it returned the empty context
\* and documents with the query it received, it made no embedding and no
\* similarity query call, and the run went on with the next stage
DegradedAt(i) ==
    /\ Len(returns) >= i
    /\ returns[i] = [context |-> <<>>, documents |-> <<>>,
                     query |-> calls[i].input.query]
    /\ \A j \in 1..Len(external) :
          external[j].node_id = calls[i].node_id =>
              external[j].op = "collection_exists"
    /\ (pc = "done" /\ i < Len(execution_order)) => Len(calls) > i

QueryPlaceholders == {"{query}", "{User Query}"}
ContextPlaceholders == {"{context}", "{CONTEXT}"}
Placeholders == QueryPlaceholders \cup ContextPlaceholders

\* the custom_prompt values: non-empty texts of at most MaxTemplateLen parts
Templates ==
    UNION {[1..n -> Placeholders \cup {"Answer: "}] : n \in 1..MaxTemplateLen}

\* what the user asks and what the collection holds
PromptQueries == {<<"hello">>} \cup {<<t>> : t \in Placeholders}
PromptContexts == {<<>>, <<"doc1">>} \cup {<<t>> : t \in Placeholders}

PromptNodes(template) ==
    <<[id |-> "n1", data |-> [type |-> T_input]],
      [id |-> "n2", data |-> [type |-> T_knowledge_base]],
      [id |-> "n3", data |-> [type |-> T_llm, model |-> <<"gpt-4o-mini">>,
                              custom_prompt |-> template]],
      [id |-> "n4", data |-> [type |-> T_output]]>>

PromptEdges ==
    <<[source |-> "n1", target |-> "n2"], [source |-> "n2", target |-> "n3"],
      [source |-> "n3", target |-> "n4"]>>

\* what the retrieval stage returned when the collection held the text c
Retrieved(q, c) ==
    IF c = <<>>
    THEN KnowledgeBaseExecute("n2", [type |-> T_knowledge_base],
                              PyDict([query |-> q]), "empty").value
    ELSE [context |-> Join(<<c>>), query |-> q, documents |-> <<c>>,
          distances |-> <<0>>, component_type |-> <<"knowledge_base">>,
          node_id |-> "n2"]

InitPrompt ==
    /\ \E template \in Templates : nodes = PromptNodes(template)
    /\ edges = PromptEdges
    /\ query \in PromptQueries
    /\ pc = "await"
    /\ in_degree = [id \in IdSet(nodes) |-> 0]
    /\ queue = <<>>
    /\ order = get_execution_order(nodes, edges)
    /\ execution_order = order
    /\ components = initialize_components(nodes, 1, <<>>).components
    /\ idx = 3
    /\ \E c \in PromptContexts :
          /\ current_data = Retrieved(query, c)
          /\ external =
                KnowledgeBaseCalls("n2", [type |-> T_knowledge_base],
                                   PyDict([query |-> query]),
                                   IF c = <<>> THEN "empty" ELSE "found")
    /\ returns = <<UserQueryExecute("n1", [type |-> T_input],
                                    PyDict([query |-> query]), "TypeError").value,
                   current_data>>
    /\ calls = <<[node_id |-> "n1", input |-> [query |-> query]],
                 [node_id |-> "n2", input |-> returns[1]],
                 [node_id |-> "n3", input |-> returns[2]]>>
    /\ execution_log = Append(ExpectedLog(execution_order, 2),
                              LogEntry("n3", "started"))
    /\ result = NoResult
    /\ raised = NoException
    /\ is_valid = TRUE
    /\ validation = validate(nodes, edges)
    /\ cycle_removed = FALSE
    /\ other = NoRun
    /\ active = 1
    /\ dfs = NoSearch

NextPrompt == StageReturn \/ StartStage \/ Finish

SpecPrompt == InitPrompt /\ [][NextPrompt]_vars

\* the template with every query placeholder replaced by q and every
\* context placeholder replaced by c
RECURSIVE Substituted(_, _, _)
Substituted(template, q, c) ==
    IF template = <<>> THEN <<>>
    ELSE (IF Head(template) \in QueryPlaceholders THEN q
          ELSE IF Head(template) \in ContextPlaceholders THEN c
          ELSE <<Head(template)>>) \o Substituted(Tail(template), q, c)

\* C17: for every custom template, query and context the prompt sent to the
\* generation provider is the template with its query placeholders replaced
\* by the query and its context placeholders replaced by the context, and
\* no placeholder token is left in it.
C17_PlaceholdersSubstituted ==
    \A j \in 1..Len(external) :
        external[j].op = "chat.completions.create" =>
            LET node_id == external[j].node_id
                template == components[node_id].config.custom_prompt
                input == calls[Pos(execution_order, node_id)].input
            IN /\ external[j].arg = Substituted(template, input.query, input.context)
               /\ \A k \in 1..Len(external[j].arg) :
                     external[j].arg[k] \notin Placeholders

(***************************************************************************)
(* The order of the checks of validate.                                    *)
(***************************************************************************)
\* the invariant a rejection message speaks of
MessageInvariant(msg) ==
    IF msg[1] = "Workflow must have at least one component" THEN 1
    ELSE IF msg[1] = "Workflow components must be connected" THEN 2
    ELSE IF msg[1] \in {"Node ", "Unknown component type: "} THEN 3
    ELSE IF msg[1] \in {"Edge references non-existent source node: ",
                        "Edge references non-existent target node: "} THEN 4
    ELSE IF msg[1] = "Workflow contains a cycle" THEN 5
    ELSE IF msg[1] \in {"Workflow must have an Input/User Query component",
                        "Workflow must have an Output component"} THEN 6
    ELSE IF msg[1] = "LLM Engine node " THEN 7
    ELSE 0

\* the listed order of the invariants, and the order in which validate
\* checks them
ListedOrder == <<1, 2, 3, 4, 5, 6, 7>>
CheckedOrder == <<1, 2, 3, 4, 5, 7, 6>>

\* the first invariant of the order ord that the graph violates
FirstViolated(ord) ==
    ord[CHOOSE i \in 1..7 : ~Holds(ord[i]) /\ \A j \in 1..(i - 1) : Holds(ord[j])]

\* C19 as stated: a rejected graph gets the message of the earliest violated
\* invariant in the listed order (non-empty, connected, types, endpoints,
\* acyclic, input/output, required parameters).
C19_FirstInListedOrder ==
    (Returned_ /\ ~validation[1]) =>
        MessageInvariant(validation[2]) = FirstViolated(ListedOrder)

\* C19: validate stops at the first failing check, and the checks run in
\* the order non-empty, connected, types, endpoints, acyclic, required
\* parameters, input/output: a rejected graph gets the message of the
\* earliest violated invariant in that order.
C19_FirstInCheckedOrder ==
    (Returned_ /\ ~validation[1]) =>
        MessageInvariant(validation[2]) = FirstViolated(CheckedOrder)

\* a graph that has no output stage and whose generation stage has no model
\* has been rejected with the message about the model
C19_Witness ==
    /\ Returned_ /\ ~validation[1]
    /\ \A k \in 1..5 : Holds(k)
    /\ ~Holds(6) /\ ~Holds(7)
    /\ MessageInvariant(validation[2]) = 7

(***************************************************************************)
(* _check_for_cycles alone, on every connection list over the declared     *)
(* ids: self loops, parallel connections, several paths to one stage and   *)
(* parts of the graph that no connection joins.  All connection lists over *)
(* the ids are drawn, so a cycle lies among the stages declared first, in  *)
(* the middle or last.                                                     *)
(***************************************************************************)
InitCycle ==
    /\ \E n \in 0..MaxCycleNodes : nodes \in NodeLists({[type |-> T_input]}, n)
    /\ \E m \in 0..MaxCycleEdges : edges \in EdgeLists(IdSet(nodes), IdSet(nodes), m)
    /\ validation = NotValidated
    /\ is_valid = FALSE
    /\ cycle_removed = FALSE
    /\ query = <<>>
    /\ pc = "call"
    /\ in_degree = <<>>
    /\ queue = <<>>
    /\ order = <<>>
    /\ execution_order = <<>>
    /\ components = <<>>
    /\ idx = 0
    /\ current_data = <<>>
    /\ execution_log = <<>>
    /\ result = NoResult
    /\ raised = NoException
    /\ calls = <<>>
    /\ returns = <<>>
    /\ external = <<>>
    /\ other = NoRun
    /\ active = 1
    /\ dfs = NoSearch

\* _check_for_cycles (lines 99-129) returns
CheckForCycles ==
    /\ pc = "call"
    /\ validation' = check_for_cycles(nodes, edges)
    /\ pc' = "returned"
    /\ UNCHANGED <<nodes, edges, is_valid, cycle_removed, query, in_degree,
                   queue, order, execution_order, components, idx,
                   current_data, execution_log, result, raised, calls, returns>>
    /\ UNCHANGED <<external, other, active, dfs>>

NextCycle == CheckForCycles

SpecCycle == InitCycle /\ [][NextCycle]_vars

\* the connection from a to b is in the list
Connected(a, b) == \E i \in 1..Len(edges) : edges[i] = [source |-> a, target |-> b]

\* the connections are exactly a diamond: two paths from one stage to another
IsDiamond ==
    /\ Len(edges) = 4
    /\ \E a, b, c, d \in IdSet(nodes) :
          /\ Cardinality({a, b, c, d}) = 4
          /\ Connected(a, b) /\ Connected(a, c)
          /\ Connected(b, d) /\ Connected(c, d)

\* C20: the cycle check reports a cycle exactly when the connection graph
\* has a directed cycle (some connection's source is reachable from its
\* target), whatever paths, parallel connections and separate parts the
\* graph has and wherever in the declaration order the cycle lies.
C20_CycleReportedIffCycle ==
    Returned_ =>
        /\ validation \in {Ok, CycleMessage}
        /\ validation = CycleMessage <=> HasDirectedCycle(edges)

\* a diamond whose two paths end at the stage declared first has been
\* reported acyclic
C20_Witness ==
    /\ Returned_ /\ validation = Ok
    /\ IsDiamond
    /\ \E a \in IdSet(nodes) \ {"n1"}, b \in IdSet(nodes) \ {"n1"} :
          a # b /\ Connected(a, "n1") /\ Connected(b, "n1")

(***************************************************************************)
(* Two runs, each on its own WorkflowExecutor (api/chat.py creates one per *)
(* request), on one event loop.  The run variables hold the run the loop   *)
(* is running; other holds the run that is suspended.  The loop passes     *)
(* from one run to the other where a run has not begun, awaits a stage's   *)
(* collaborator, or is over.  The collaborators' call history is shared.   *)
(***************************************************************************)
Runs == {1, 2}

\* the graphs the two requests run: a full pipeline, and a graph validate
\* accepts whose input stage comes after its output stage
ConcurrentGraphs ==
    {[nodes |-> PromptNodes(<<"Answer: ", "{query}">>), edges |-> PromptEdges],
     [nodes |-> <<[id |-> "n1", data |-> [type |-> T_output]],
                  [id |-> "n2", data |-> [type |-> T_input]]>>,
      edges |-> <<[source |-> "n1", target |-> "n2"]>>]}

ConcurrentQueries == {<<"hello">>, <<"bye">>}

\* a WorkflowExecutor and its execute call: the fields of the instance and
\* the locals of the coroutine
RunState ==
    [nodes |-> nodes, edges |-> edges, query |-> query, pc |-> pc,
     in_degree |-> in_degree, queue |-> queue, order |-> order,
     execution_order |-> execution_order, components |-> components,
     idx |-> idx, current_data |-> current_data,
     execution_log |-> execution_log, result |-> result, raised |-> raised,
     calls |-> calls, returns |-> returns, validation |-> validation]

\* WorkflowExecutor(workflow_data) followed by execute(q), not yet begun
NewRun(g, q) ==
    [nodes |-> g.nodes, edges |-> g.edges, query |-> q, pc |-> "start",
     in_degree |-> <<>>, queue |-> <<>>, order |-> <<>>,
     execution_order |-> <<>>, components |-> <<>>, idx |-> 0,
     current_data |-> <<>>, execution_log |-> <<>>, result |-> NoResult,
     raised |-> NoException, calls |-> <<>>, returns |-> <<>>,
     validation |-> NotValidated]

InitConcurrent ==
    /\ \E g \in ConcurrentGraphs, q \in ConcurrentQueries :
          /\ nodes = g.nodes
          /\ edges = g.edges
          /\ query = q
    /\ pc = "start"
    /\ in_degree = <<>>
    /\ queue = <<>>
    /\ order = <<>>
    /\ execution_order = <<>>
    /\ components = <<>>
    /\ idx = 0
    /\ current_data = <<>>
    /\ execution_log = <<>>
    /\ result = NoResult
    /\ raised = NoException
    /\ calls = <<>>
    /\ returns = <<>>
    /\ is_valid = TRUE
    /\ validation = NotValidated
    /\ cycle_removed = FALSE
    /\ external = <<>>
    /\ \E g \in ConcurrentGraphs, q \in ConcurrentQueries : other = NewRun(g, q)
    /\ active = 1
    /\ dfs = NoSearch

\* the run is over: execute returned or raised
Over(p) == p \in {"done", "raised"}

\* self.execution_log = [] (line 25): the log the resumed run appends to is
\* its executor's own list, not the list of the run that was running
SharedLog(own, running) == running
OwnLog(own, running) == own

\* the event loop leaves the running run and resumes the other one
Switch ==
    /\ pc \in {"start", "await"} \/ Over(pc)
    /\ ~Over(other.pc)
    /\ other' = RunState
    /\ active' = 3 - active
    /\ nodes' = other.nodes
    /\ edges' = other.edges
    /\ query' = other.query
    /\ pc' = other.pc
    /\ in_degree' = other.in_degree
    /\ queue' = other.queue
    /\ order' = other.order
    /\ execution_order' = other.execution_order
    /\ components' = other.components
    /\ idx' = other.idx
    /\ current_data' = other.current_data
    /\ execution_log' = OwnLog(other.execution_log, execution_log)
    /\ result' = other.result
    /\ raised' = other.raised
    /\ calls' = other.calls
    /\ returns' = other.returns
    /\ validation' = other.validation
    /\ UNCHANGED <<is_valid, cycle_removed, external, dfs>>

NextConcurrent ==
    \/ Validate
    \/ GetOrderBegin
    \/ KahnLoop
    \/ GetOrderReturn
    \/ InitializeComponents
    \/ StartStage
    \/ StageReturn
    \/ StageRaise
    \/ Catch
    \/ Finish
    \/ Switch

SpecConcurrent == InitConcurrent /\ [][NextConcurrent]_vars

\* the results execute(q) can return on the graph (ns, es) when it is the
\* only run, one for each way the collaborators can answer; the stages of
\* ord from the i-th on are still to run on the payload data
RECURSIVE AloneFrom(_, _, _, _, _)
AloneFrom(comps, ord, i, data, log) ==
    IF i > Len(ord)
    THEN {[success |-> TRUE, output |-> FinalOutput(data),
           execution_log |-> log, full_output |-> data]}
    ELSE LET component == comps[ord[i]]
             started == Append(log, LogEntry(ord[i], "started"))
         IN UNION {LET r == StageExecute(component, PyDict(data), ext) IN
                   IF r.raised
                   THEN {ExecutionFailure(r.error, started)}
                   ELSE AloneFrom(comps, ord, i + 1, r.value,
                                  Append(started, LogEntry(ord[i], "completed")))
                   : ext \in ExtChoices(component.class)}

AloneResults(ns, es, q) ==
    LET v == validate(ns, es) IN
    IF ~v[1] THEN {ValidationFailure(v[2])}
    ELSE AloneFrom(initialize_components(ns, 1, <<>>).components,
                   get_execution_order(ns, es), 1, [query |-> q], <<>>)

\* the two runs: the running one and the suspended one
TheRuns == {RunState, other}

\* the stages of run r that have returned
Completed(r) == Len(r.returns)

\* the run r holds only what its own steps produced: its stage instances are
\* those of its own graph, its log is the log of its own order, each stage
\* received the query or the previous return of the same run and returned
\* what that stage returns on that input, and its payload is its last return
OwnState(r) ==
    /\ r.components \in {<<>>, initialize_components(r.nodes, 1, <<>>).components}
    /\ r.execution_order \in {<<>>, get_execution_order(r.nodes, r.edges)}
    /\ Len(r.calls) \in {Completed(r), Completed(r) + 1}
    /\ r.execution_log =
          ExpectedLog(r.execution_order, Completed(r)) \o
             (IF Len(r.calls) > Completed(r)
              THEN <<LogEntry(r.execution_order[Len(r.calls)], "started")>>
              ELSE <<>>)
    /\ \A k \in 1..Len(r.calls) :
          /\ r.calls[k].node_id = r.execution_order[k]
          /\ r.calls[k].input =
                IF k = 1 THEN [query |-> r.query] ELSE r.returns[k - 1]
    /\ \A k \in 1..Completed(r) :
          \E ext \in ExtChoices(r.components[r.execution_order[k]].class) :
             LET s == StageExecute(r.components[r.execution_order[k]],
                                   PyDict(r.calls[k].input), ext)
             IN ~s.raised /\ s.value = r.returns[k]
    /\ r.pc \in {"loop", "await", "except"} \/ (r.pc = "done" /\ r.validation[1]) =>
          r.current_data =
             IF Completed(r) = 0 THEN [query |-> r.query]
             ELSE r.returns[Completed(r)]

\* a step of the running run leaves the suspended run as it is, and the
\* loop resumes a run in the state in which it was suspended
OthersUntouched ==
    IF active' = active THEN other' = other
    ELSE other' = RunState /\ RunState' = other

\* C18: two runs on separate executors, interleaved at the points where a
\* stage awaits a collaborator, are independent: each run's payload, stage
\* instances and log hold only what that run produced, no step of one run
\* changes the other, and a finished run's result is a result the same
\* graph and query give when run alone.
C18_RunsIndependent ==
    /\ [](\A r \in TheRuns :
            /\ OwnState(r)
            /\ r.pc = "done" => r.result \in AloneResults(r.nodes, r.edges, r.query))
    /\ [][OthersUntouched]_vars

\* two runs of the same graph on different queries are both in the middle:
\* each awaits a stage after some of its stages returned, and the run that
\* began first is the one resumed
C18_Witness ==
    /\ pc = "await" /\ other.pc = "await"
    /\ active = 1
    /\ nodes = other.nodes /\ query # other.query
    /\ Len(returns) >= 2 /\ Len(other.returns) >= 1
    /\ external # <<>>

(***************************************************************************)
(* Construction of the stages.                                             *)
(***************************************************************************)
\* create_component raises for some declared stage of the graph
ConstructionFails == initialize_components(nodes, 1, <<>>).raised

\* C21: if constructing any declared stage fails, the run aborts before any
\* stage executes: at no point of the run has a stage's execute been invoked,
\* a collaborator been called or a log entry been appended, the stage loop
\* is never entered, and no result is returned for the run.
C21_ConstructionFailureAborts ==
    (validation # NotValidated /\ validation[1] /\ ConstructionFails) =>
        /\ calls = <<>> /\ returns = <<>> /\ external = <<>>
        /\ execution_log = <<>>
        /\ pc \in {"order", "kahn", "init", "raised"}
        /\ result = NoResult

\* the run has aborted at the construction of a stage after another stage
\* was constructed
C21_Witness ==
    /\ pc = "raised" /\ ConstructionFails
    /\ components # <<>>
    /\ raised = <<"Unknown component type: ">> \o T_userquery

(***************************************************************************)
(* The input stage.                                                        *)
(***************************************************************************)
\* the k-th stage invocation of the run is over and did not return
RaisedAt(k) == k = Len(calls) /\ Len(returns) < k /\ pc # "await"

\* C22: the input stage's execute never raises and returns a payload whose
\* query is the query field of the mapping it received, or the empty string
\* when the mapping has no such field (as the payload an output stage
\* returned).
C22_InputStageNeverRaises ==
    \A k \in 1..Len(calls) :
        components[calls[k].node_id].class = "UserQueryComponent" =>
            /\ ~RaisedAt(k)
            /\ k <= Len(returns) =>
                  returns[k].query = Get(calls[k].input, "query", <<>>)

(***************************************************************************)
(* Provider failures inside a stage.                                       *)
(***************************************************************************)
ProviderCalls == {"embeddings.create", "query_embeddings", "chat.completions.create"}

\* a provider call of the stage invoked at position i of the run failed
ProviderFailedAt(i) ==
    /\ i \in 1..Len(calls)
    /\ \E j \in 1..Len(external) :
          /\ external[j].node_id = calls[i].node_id
          /\ external[j].op \in ProviderCalls
          /\ ~external[j].ok

\* the stage at position i returned a payload with the query it received and
\* an error field (a retrieval stage: empty context and documents; a
\* generation stage: a response text that explains the error), and the run
\* went on with the next stage
AbsorbedAt(i) ==
    /\ Len(returns) >= i
    /\ "error" \in DOMAIN returns[i]
    /\ returns[i].query = calls[i].input.query
    /\ IF components[calls[i].node_id].class = "KnowledgeBaseComponent"
       THEN returns[i].context = <<>> /\ returns[i].documents = <<>>
       ELSE returns[i].response = <<"Error generating response: ">> \o returns[i].error
    /\ (pc = "done" /\ i < Len(execution_order)) => Len(calls) > i

WithoutModel ==
    {i \in 1..Len(nodes) :
        /\ Classified(nodes[i], "LLMEngineComponent")
        /\ "model" \in DOMAIN nodes[i].data => nodes[i].data.model = <<>>}

\* the retrieval stages of the graph without a collection name
WithoutCollection ==
    {i \in 1..Len(nodes) :
        /\ Classified(nodes[i], "KnowledgeBaseComponent")
        /\ "collection_name" \notin DOMAIN nodes[i].data}

\* the graph with a collection name given to every retrieval stage
Named ==
    [i \in 1..Len(nodes) |->
        IF i \in WithoutCollection
        THEN [id |-> nodes[i].id,
              data |-> [k \in DOMAIN nodes[i].data \cup {"collection_name"} |->
                          IF k = "collection_name" THEN <<"docs">>
                          ELSE nodes[i].data[k]]]
        ELSE nodes[i]]

\* C24: a graph that passes the structural checks (stages, connections,
\* types, endpoints, no cycle) and has a generation stage without a model
\* identifier, or with an empty one, is rejected with a message naming such
\* a stage; a retrieval stage without a collection name only causes a
\* warning: validate returns what it returns when the stage has a name.
C24_ModelRequiredCollectionNot ==
    Returned_ =>
        /\ ((\A k \in 1..5 : Holds(k)) /\ WithoutModel # {}) =>
              \E i \in WithoutModel :
                 validation = <<FALSE, <<"LLM Engine node ", nodes[i].id,
                                         " must have a model specified">> >>
        /\ validation = validate(Named, edges)
        /\ validation[1] =>
              \A i \in WithoutCollection :
                 \E k \in 1..Len(config_warnings_from(nodes, 1)) :
                    config_warnings_from(nodes, 1)[k] = nodes[i].id

\* a graph that passes the structural checks has been rejected for its
\* generation stage with an empty model, after a warning about its
\* retrieval stage without a collection name
C24_Witness ==
    /\ Returned_ /\ ~validation[1]
    /\ \A k \in 1..5 : Holds(k)
    /\ \E i \in WithoutModel : "model" \in DOMAIN nodes[i].data
    /\ WithoutCollection # {}
    /\ config_warnings_from(nodes, 1) # <<>>

(***************************************************************************)
(* get_execution_order on any graph with declared endpoints, cyclic or     *)
(* not: called by execute after validate (the run begins at "start"), or   *)
(* called on the validator directly (the run begins at "order").           *)
(***************************************************************************)
\* an input stage followed by output stages: the types play no part in the
\* order
OrderNodes(n) ==
    [i \in 1..n |-> [id |-> IdNames[i],
                     data |-> [type |-> IF i = 1 THEN T_input ELSE T_output]]]

InitOrder ==
    /\ \E n \in 0..MaxOrderNodes : nodes = OrderNodes(n)
    /\ \E m \in 0..MaxOrderEdges : edges \in EdgeLists(IdSet(nodes), IdSet(nodes), m)
    /\ query = <<"hello">>
    /\ pc \in {"start", "order"}
    /\ in_degree = <<>>
    /\ queue = <<>>
    /\ order = <<>>
    /\ execution_order = <<>>
    /\ components = <<>>
    /\ idx = 0
    /\ current_data = <<>>
    /\ execution_log = <<>>
    /\ result = NoResult
    /\ raised = NoException
    /\ calls = <<>>
    /\ returns = <<>>
    /\ is_valid = TRUE
    /\ validation = NotValidated
    /\ cycle_removed = FALSE
    /\ external = <<>>
    /\ other = NoRun
    /\ active = 1
    /\ dfs = NoSearch

NextOrder == Validate \/ GetOrderBegin \/ KahnLoop \/ GetOrderReturn

SpecOrder == InitOrder /\ [][NextOrder]_vars

\* the stage lies on a directed cycle
OnCycle(id) ==
    \E i \in 1..Len(edges) :
        edges[i].source = id /\ id \in ReachableFrom(edges, {edges[i].target})

NoDuplicates(seq) == \A i, j \in 1..Len(seq) : seq[i] = seq[j] => i = j

\* get_execution_order has returned on a graph with a directed cycle
CyclicOrderReturned == pc = "init" /\ HasDirectedCycle(edges)

\* execute goes from validate to get_execution_order only when validate
\* has returned true for the graph
OrderedOnlyIfValid ==
    (pc = "start" /\ pc' = "order") =>
        validation' = validate(nodes, edges) /\ validation'[1]

\* C25: on a graph with a directed cycle and declared endpoints
\* get_execution_order does not raise, never holds a stage twice in its
\* queue and order, and returns an order with fewer than N stage ids, without
\* duplicates and without any stage that lies on a cycle; and execute calls
\* get_execution_order only after validate has returned true for the graph.
C25_CyclicOrderShorter ==
    /\ [](/\ raised = NoException
          /\ pc = "kahn" => NoDuplicates(order \o queue)
          /\ CyclicOrderReturned =>
                /\ Len(execution_order) < Len(nodes)
                /\ NoDuplicates(execution_order)
                /\ \A i \in 1..Len(execution_order) :
                      /\ execution_order[i] \in IdSet(nodes)
                      /\ ~OnCycle(execution_order[i])
          /\ (pc \in {"order", "kahn", "init"} /\ validation # NotValidated) =>
                validation[1] /\ ~HasDirectedCycle(edges))
    /\ [][OrderedOnlyIfValid]_vars

\* get_execution_order, called directly on a graph whose first stage leads
\* into a cycle of the two others, has returned the first stage only
C25_Witness ==
    /\ CyclicOrderReturned
    /\ validation = NotValidated
    /\ Len(nodes) = 3
    /\ execution_order = <<"n1">>
    /\ OnCycle("n2") /\ OnCycle("n3") /\ ~OnCycle("n1")
    /\ \E i \in 1..Len(edges) : edges[i].source = "n1"

(***************************************************************************)
(* execute called a second time on the same WorkflowExecutor.  While the   *)
(* second call runs, other holds what the first call returned.             *)
(***************************************************************************)
AgainQueries == {<<"hello">>, <<"bye">>}

\* the execution_log of a returned result is the list self.execution_log
\* itself (lines 85 and 94), except after a validation failure (line 47)
LogIsAlias == validation # NotValidated /\ validation[1]

\* the first call is over (it returned or raised) and execute is called again
ExecuteAgain ==
    /\ pc \in {"done", "raised"}
    /\ active = 1
    /\ other' = [pc |-> pc, result |-> result,
                 alias |-> pc = "done" /\ LogIsAlias]
    /\ active' = 2
    /\ pc' = "start"
    /\ query' \in AgainQueries
    /\ validation' = NotValidated
    /\ in_degree' = <<>>
    /\ queue' = <<>>
    /\ order' = <<>>
    /\ execution_order' = <<>>
    /\ idx' = 0
    /\ current_data' = <<>>
    /\ result' = NoResult
    /\ raised' = NoException
    /\ calls' = <<>>
    /\ returns' = <<>>
    /\ UNCHANGED <<nodes, edges, components, execution_log, external,
                   is_valid, cycle_removed, dfs>>

NextAgain ==
    \/ Validate
    \/ GetOrderBegin
    \/ KahnLoop
    \/ GetOrderReturn
    \/ InitializeComponents
    \/ StartStage
    \/ StageReturn
    \/ StageRaise
    \/ Catch
    \/ Finish
    \/ ExecuteAgain

SpecAgain == Init /\ [][NextAgain]_vars

\* the entries of the stages invoked in the current call of execute
RunLog ==
    ExpectedLog(execution_order, Len(returns)) \o
       (IF Len(calls) > Len(returns)
        THEN <<LogEntry(calls[Len(calls)].node_id, "started")>>
        ELSE <<>>)

\* the log seen now through the result the first call returned
EarlierLog ==
    IF other.alias THEN execution_log ELSE other.result.execution_log

\* C26: the log a run returns holds entries only for the stages executed in
\* that run, also in a second call of execute on the same executor, and the
\* log the first call returned is not changed by the second call.
C26_LogOwnedByRun ==
    /\ (pc = "done" /\ validation[1]) => result.execution_log = RunLog
    /\ (active = 2 /\ other.pc = "done") =>
          EarlierLog = other.result.execution_log

(***************************************************************************)
(* validate on a graph and on the same graph with its stage declarations   *)
(* and its connections in another order.  While the rearranged graph is    *)
(* validated, other holds what validate returned for the first order.      *)
(***************************************************************************)
PermData ==
    {[type |-> T_input], [type |-> T_output], [type |-> T_llm], [type |-> T_foo]}

Orderings(n) ==
    {f \in [1..n -> 1..n] : \A i, j \in 1..n : f[i] = f[j] => i = j}

Permuted(seq, f) == [i \in 1..Len(seq) |-> seq[f[i]]]

InitPermute ==
    /\ \E n \in 0..MaxPermNodes : nodes \in NodeLists(PermData, n)
    /\ \E m \in 0..MaxPermEdges :
          edges \in EdgeLists(IdSet(nodes) \cup {GhostId},
                              IdSet(nodes) \cup {GhostId}, m)
    /\ validation = NotValidated
    /\ is_valid = FALSE
    /\ cycle_removed = FALSE
    /\ query = <<>>
    /\ pc = "call"
    /\ in_degree = <<>>
    /\ queue = <<>>
    /\ order = <<>>
    /\ execution_order = <<>>
    /\ components = <<>>
    /\ idx = 0
    /\ current_data = <<>>
    /\ execution_log = <<>>
    /\ result = NoResult
    /\ raised = NoException
    /\ calls = <<>>
    /\ returns = <<>>
    /\ external = <<>>
    /\ other = NoRun
    /\ active = 1
    /\ dfs = NoSearch

\* the same stages and connections are submitted in another order
Rearrange ==
    /\ pc = "returned"
    /\ active = 1
    /\ \E f \in Orderings(Len(nodes)) : nodes' = Permuted(nodes, f)
    /\ \E g \in Orderings(Len(edges)) : edges' = Permuted(edges, g)
    /\ other' = [pc |-> "returned", validation |-> validation]
    /\ active' = 2
    /\ pc' = "call"
    /\ validation' = NotValidated
    /\ UNCHANGED <<is_valid, cycle_removed, query, in_degree, queue, order,
                   execution_order, components, idx, current_data,
                   execution_log, result, raised, calls, returns, external,
                   dfs>>

NextPermute == ValidateCall \/ Rearrange

SpecPermute == InitPermute /\ [][NextPermute]_vars

\* validate has returned for the rearranged graph
RearrangedReturned == active = 2 /\ pc # "call"

\* C27: for any graph, validate returns the same true/false value for every
\* order of its stage declarations and of its connections (and raises for
\* none of them).
C27_ValidityIgnoresOrder ==
    /\ pc # "raised"
    /\ RearrangedReturned => validation[1] = other.validation[1]

\* a graph whose input stage is declared last and whose output stage is
\* declared first has been accepted, as it was with the input stage first
C27_Witness ==
    /\ RearrangedReturned
    /\ validation[1] /\ other.validation[1]
    /\ Len(nodes) = 3 /\ Len(edges) = 2
    /\ nodes[1].id = "n3" /\ NodeType(nodes[1]) = T_output
    /\ nodes[3].id = "n1" /\ NodeType(nodes[3]) = T_input
    /\ edges[1].source = "n3"

(***************************************************************************)
(* The stored validity flag.                                               *)
(***************************************************************************)
\* C28: after any sequence of create, update and validate requests the stored
\* is_valid flag is true only if validate accepts the stored stages and
\* connections.
C28_StoredFlagIsDerived ==
    (pc = "stored" /\ is_valid) => validate(nodes, edges)[1]

(***************************************************************************)
(* Runs of accepted graphs.                                                *)
(***************************************************************************)
\* no call to an external collaborator has failed in the run
CollaboratorsSucceeded == \A j \in 1..Len(external) : external[j].ok

\* C29: for every graph validate accepts, a run in which every collaborator
\* call succeeds constructs all stages, executes all of them and ends with
\* success=true, whatever the order of the input and output stages, the
\* number of roots and the spelling of the stage types.
C29_AcceptedGraphRuns ==
    (Accepted /\ CollaboratorsSucceeded) =>
        /\ pc \notin {"raised", "except"}
        /\ pc = "done" =>
              /\ result.success
              /\ DOMAIN components = IdSet(nodes)
              /\ Len(returns) = Len(nodes)

(***************************************************************************)
(* _check_for_cycles step by step, followed by a call of execute or of     *)
(* get_execution_order on the same graph, with the steps taken one after   *)
(* the other as long as one is possible.                                   *)
(***************************************************************************)
\* an input stage, of either spelling, followed by output stages
TerminateNodes(n, first) ==
    [i \in 1..n |-> [id |-> IdNames[i],
                     data |-> [type |-> IF i = 1 THEN first ELSE T_output]]]

\* the state of _check_for_cycles before the loop over the roots: frames are
\* the calls of has_cycle in progress, each with the position it has reached
\* in its loop over the neighbours; root is the position of "for node_id in
\* graph"; entered lists the calls of has_cycle made so far
SearchBegin ==
    [visited |-> {}, rec_stack |-> {}, frames |-> <<>>, root |-> 1,
     entered |-> <<>>, found |-> FALSE]

InitTerminate ==
    /\ \E n \in 0..MaxOrderNodes, first \in {T_input, T_userQuery} :
          nodes = TerminateNodes(n, first)
    /\ \E m \in 0..MaxOrderEdges : edges \in EdgeLists(IdSet(nodes), IdSet(nodes), m)
    /\ query = <<"hello">>
    /\ pc = "cycles"
    /\ in_degree = <<>>
    /\ queue = <<>>
    /\ order = <<>>
    /\ execution_order = <<>>
    /\ components = <<>>
    /\ idx = 0
    /\ current_data = <<>>
    /\ execution_log = <<>>
    /\ result = NoResult
    /\ raised = NoException
    /\ calls = <<>>
    /\ returns = <<>>
    /\ is_valid = TRUE
    /\ validation = NotValidated
    /\ cycle_removed = FALSE
    /\ external = <<>>
    /\ other = NoRun
    /\ active = 1
    /\ dfs = SearchBegin

\* "if node_id not in visited" (line 125), "if neighbor not in visited"
\* (line 115)
NotVisitedAlways(id, visited) == TRUE
NotVisited(id, visited) == id \notin visited

\* has_cycle(id) is called: lines 110-112
Entered(d, id) ==
    [d EXCEPT !.visited = @ \cup {id}, !.rec_stack = @ \cup {id},
              !.frames = Append(@, [node_id |-> id, i |-> 1]),
              !.entered = Append(@, id)]

\* the call of has_cycle in progress and the neighbour it looks at
Top(d) == d.frames[Len(d.frames)]
Neighbors(d) == BuildGraph(nodes, edges)[Top(d).node_id]

\* the loop of has_cycle moves on to the next neighbour
Advanced(d) == [d EXCEPT !.frames[Len(d.frames)].i = @ + 1]

searchFrame == <<nodes, edges, query, in_degree, queue, order, execution_order,
                 components, idx, current_data, execution_log, result, raised,
                 calls, returns, is_valid, validation, cycle_removed, external,
                 other, active>>

\* lines 124-126: the next stage of "for node_id in graph"
DfsRoot ==
    /\ pc = "cycles"
    /\ dfs.frames = <<>>
    /\ dfs.root <= Len(nodes)
    /\ LET id == NodeIds(nodes)[dfs.root]
           d == [dfs EXCEPT !.root = @ + 1]
       IN dfs' = IF NotVisited(id, dfs.visited) THEN Entered(d, id) ELSE d
    /\ UNCHANGED pc
    /\ UNCHANGED searchFrame

\* lines 113-119: the next neighbour of the stage has_cycle is at; a
\* neighbour not visited is entered, a visited one not on the stack is
\* passed over
DfsNeighbor ==
    /\ pc = "cycles"
    /\ dfs.frames # <<>>
    /\ Top(dfs).i <= Len(Neighbors(dfs))
    /\ LET neighbor == Neighbors(dfs)[Top(dfs).i] IN
       /\ NotVisited(neighbor, dfs.visited)
             \/ ~OnStack(neighbor, dfs.visited, dfs.rec_stack)
       /\ dfs' = IF NotVisited(neighbor, dfs.visited)
                 THEN Entered(Advanced(dfs), neighbor)
                 ELSE Advanced(dfs)
    /\ UNCHANGED pc
    /\ UNCHANGED searchFrame

\* lines 121-122: the neighbours are exhausted, has_cycle returns False
DfsReturn ==
    /\ pc = "cycles"
    /\ dfs.frames # <<>>
    /\ Top(dfs).i > Len(Neighbors(dfs))
    /\ dfs' = [dfs EXCEPT !.rec_stack = @ \ {Top(dfs).node_id},
                          !.frames = SubSeq(@, 1, Len(@) - 1)]
    /\ UNCHANGED pc
    /\ UNCHANGED searchFrame

\* lines 118-119 and 116-117, 126-127: a visited neighbour is on the stack,
\* every call of has_cycle in progress returns True and the check returns;
\* then execute, or get_execution_order, is called
DfsCycle ==
    /\ pc = "cycles"
    /\ dfs.frames # <<>>
    /\ Top(dfs).i <= Len(Neighbors(dfs))
    /\ LET neighbor == Neighbors(dfs)[Top(dfs).i] IN
       /\ ~NotVisited(neighbor, dfs.visited)
       /\ OnStack(neighbor, dfs.visited, dfs.rec_stack)
    /\ dfs' = [dfs EXCEPT !.frames = <<>>, !.found = TRUE]
    /\ pc' \in {"start", "order"}
    /\ UNCHANGED searchFrame

\* line 129: every stage has been a root or was visited, the check returns;
\* then execute, or get_execution_order, is called
DfsDone ==
    /\ pc = "cycles"
    /\ dfs.frames = <<>>
    /\ dfs.root > Len(nodes)
    /\ pc' \in {"start", "order"}
    /\ UNCHANGED dfs
    /\ UNCHANGED searchFrame

\* line 55 of execute, which only a validated graph reaches (a direct call
\* of get_execution_order returns to its caller)
ConstructValidated == Accepted /\ InitializeComponents

NextTerminate ==
    \/ DfsRoot
    \/ DfsNeighbor
    \/ DfsReturn
    \/ DfsCycle
    \/ DfsDone
    \/ Validate
    \/ GetOrderBegin
    \/ KahnLoop
    \/ GetOrderReturn
    \/ ConstructValidated
    \/ StartStage
    \/ StageReturn
    \/ StageRaise
    \/ Catch
    \/ Finish

SpecTerminate ==
    InitTerminate /\ [][NextTerminate]_vars /\ WF_vars(NextTerminate)

\* the cycle check has returned
SearchOver == pc # "cycles"

\* get_execution_order, called directly, has returned
DirectOrderReturned == pc = "init" /\ validation = NotValidated

\* each stage is entered at most once by the search and dequeued at most
\* once by Kahn's loop, and the search answers as _check_for_cycles does
EachStageOnce ==
    /\ NoDuplicates(dfs.entered)
    /\ Len(dfs.frames) <= Len(nodes)
    /\ NoDuplicates(order)
    /\ SearchOver => (dfs.found <=> CycleFound(nodes, edges))

====
